---- MODULE Spec2Model ----
(***************************************************************************)
(* A model of the crop-center samplers of monai/transforms/utils.py:       *)
(* correct_crop_centers, generate_pos_neg_label_crop_centers,              *)
(* generate_label_classes_crop_centers and weighted_patch_samples.         *)
(*                                                                         *)
(* One behaviour is one call: a Call action binds the arguments and runs   *)
(* the function's prologue, the loop actions run one iteration of the      *)
(* sampling loop each, and the call ends in pc = "done" (a value was       *)
(* returned) or pc = "error" (an exception left the function).             *)
(* Volumes have two spatial axes.                                          *)
(***************************************************************************)
EXTENDS Integers, Sequences, FiniteSets

VARIABLES
    pc,          \* "idle", "pos_neg_loop", "classes_loop", "done", "error"
    fn,          \* the function called, "none" before the call
    args,        \* the arguments of the call, as the caller passed them
    result,      \* the returned value once pc = "done"
    err,         \* the exception that left the function once pc = "error"
    warnings,    \* the warnings issued so far (warnings.warn)
    local,       \* the function's local variables while its loop runs
    rsDraws,     \* numbers drawn from the random state the caller passed
    globalDraws, \* numbers drawn from numpy's process-global RandomState
    freshDraws,  \* numbers drawn from a RandomState() the function built
    cache,       \* the lru_cache of resolves_modes: key -> the cached tuple
    dicts,       \* the dict objects built by resolves_modes, by identity
    callers,     \* the concurrent callers of resolves_modes
    flags,       \* allow_missing_keys of every MapTransform object
    frames       \* the active allow_missing_keys_mode contexts, innermost last

\* The state that outlives one call: the memo table, the dict objects its
\* tuples refer to, the callers' threads, and the transform objects.
processVars == <<cache, dicts, callers, flags, frames>>

vars == <<pc, fn, args, result, err, warnings, local, rsDraws, globalDraws, freshDraws,
          cache, dicts, callers, flags, frames>>

(***************************************************************************)
(* Bounds of the model.                                                    *)
(***************************************************************************)
MaxDim == 3
MaxPatch == 4
\* the sampling functions: label dimensions, flat indices, samples, and the
\* number of equally likely values of one uniform draw from [0, 1)
MaxGenDim == 2
MaxFlat == 2
MaxSamples == 2
RandScale == 2
MaxClasses == 2
\* weight maps: dimensions, number of cells, largest weight
MaxWDim == 3
MaxCells == 4
MaxWeight == 1
MaxBoxDim == 3
MaxVoxels == 8
MaxMargin == 1
MaxIdxCells == 4
MaxLazyCells == 1
MaxRank == 4
MaxAngles == 4
MaxCoefs == 7
MaxModes == 2
MaxEntries == 2
MaxGridDim == 5
MaxSpacing == 3
MaxPerClass == 3
MaxNdim == 4
MaxCallers == 2
MaxDicts == 2
MaxTransforms == 2
MaxFrames == 2

(***************************************************************************)
(* Program constants.                                                      *)
(***************************************************************************)
\* the number of values of np.uint16, the dtype valid_end is cast to
UInt16Mod == 65536

\* the spatial axes of a [C, H, W] volume
Axes == 1..2

Min(a, b) == IF a <= b THEN a ELSE b
Max(a, b) == IF a >= b THEN a ELSE b

\* float -> integer conversion truncates toward zero
TruncDiv(a, b) == IF a >= 0 THEN a \div b ELSE -((-a) \div b)

(***************************************************************************)
(* correct_crop_centers                                                    *)
(***************************************************************************)
\* fall_back_tuple(spatial_size, default): a non-positive entry falls back
\* to the default's entry
FallBackTuple(spatial_size, default) ==
    [i \in DOMAIN default |-> IF spatial_size[i] > 0 THEN spatial_size[i] ELSE default[i]]

\* the same test with all() in place of any()
AllSmaller(label_spatial_shape, spatial_size) ==
    \A i \in DOMAIN label_spatial_shape : label_spatial_shape[i] - spatial_size[i] < 0

\* any(np.subtract(label_spatial_shape, spatial_size) < 0)
AnySmaller(label_spatial_shape, spatial_size) ==
    \E i \in DOMAIN label_spatial_shape : label_spatial_shape[i] - spatial_size[i] < 0

\* tuple(min(l, s) for l, s in zip(label_spatial_shape, spatial_size))
ShrinkToLabel(label_spatial_shape, spatial_size) ==
    [i \in DOMAIN label_spatial_shape |-> Min(label_spatial_shape[i], spatial_size[i])]

\* np.floor_divide(spatial_size, 2), one axis
ValidStart(patch) == patch \div 2

\* np.subtract(label + 1, patch / 2).astype(np.uint16), one axis: the
\* subtraction is done in floating point (patch / 2 is a half-integer), the
\* cast truncates it and keeps the low 16 bits
ValidEndCast(label_dim, patch) == TruncDiv(2 * (label_dim + 1) - patch, 2) % UInt16Mod

\* if valid_s == valid_end[i]: valid_end[i] += 1   (a uint16 element)
ValidEnd(label_dim, patch) ==
    LET e == ValidEndCast(label_dim, patch)
    IN  IF ValidStart(patch) = e THEN (e + 1) % UInt16Mod ELSE e

\* center_i = min(max(c, v_s), v_e - 1); v_e - 1 is computed as a signed
\* integer (a uint16 scalar minus a Python int promotes to int64)
ClampCenterShifted(c, v_s, v_e) == Min(Max(c, v_s), v_e) - 1
ClampCenter(c, v_s, v_e) == Min(Max(c, v_s), v_e - 1)

\* the whole function: [err |-> "" or the exception, val |-> the centers]
CorrectCropCenters(centers, spatial_size, label_spatial_shape, allow_smaller) ==
    LET size0 == FallBackTuple(spatial_size, label_spatial_shape)
        small == AnySmaller(label_spatial_shape, size0)
        size  == IF small THEN ShrinkToLabel(label_spatial_shape, size0) ELSE size0
    IN  IF small /\ ~allow_smaller
        THEN [err |-> "ValueError: ROI larger than image", val |-> <<>>]
        ELSE [err |-> "",
              val |-> [i \in DOMAIN centers |->
                          ClampCenter(centers[i], ValidStart(size[i]),
                                      ValidEnd(label_spatial_shape[i], size[i]))]]

\* valid_start and valid_end as lines 498-506 leave them, per axis.
ValidRange(spatial_size, label_spatial_shape, allow_smaller) ==
    LET size0 == FallBackTuple(spatial_size, label_spatial_shape)
        small == AnySmaller(label_spatial_shape, size0)
        size  == IF small THEN ShrinkToLabel(label_spatial_shape, size0) ELSE size0
    IN  IF small /\ ~allow_smaller
        THEN <<>>
        ELSE [valid_start |-> [i \in DOMAIN size |-> ValidStart(size[i])],
              valid_end |-> [i \in DOMAIN size |-> ValidEnd(label_spatial_shape[i], size[i])]]

(***************************************************************************)
(* Inputs of a direct call of correct_crop_centers.                        *)
(***************************************************************************)
\* label dimensions: small ones, those around the uint16 range, and one
\* whose half is around the uint16 range
LabelDims == (1..MaxDim) \cup {UInt16Mod + k : k \in 0..(MaxDim - 1)} \cup {2 * UInt16Mod}
PatchDims == (1..MaxPatch) \cup {2 * UInt16Mod}
CenterVals == (-1..MaxDim) \cup {UInt16Mod + MaxDim}
Tuples(S) == [Axes -> S]

\* The empty dict (line 1937, {}).
EmptyDict == [k \in {} |-> FALSE]

\* A caller that has not called yet: no arguments, no tuple received.
NoCall ==
    [pc |-> "ready", called |-> FALSE,
     key |-> [interp_mode |-> "", padding_mode |-> "", backend |-> "", kwargs |-> EmptyDict],
     backend |-> "", interp_mode |-> "", padding_mode |-> "", ref |-> 0,
     seen |-> EmptyDict, err |-> ""]

Init ==
    /\ pc = "idle"
    /\ fn = "none"
    /\ args = <<>>
    /\ result = <<>>
    /\ err = ""
    /\ warnings = <<>>
    /\ local = <<>>
    /\ rsDraws = 0
    /\ globalDraws = 0
    /\ freshDraws = 0
    /\ cache = [k \in {} |-> 0]
    /\ dicts = <<>>
    /\ callers = [t \in 1..MaxCallers |-> NoCall]
    /\ flags = <<>>
    /\ frames = <<>>

CallCorrectCropCenters ==
    /\ pc = "idle"
    /\ UNCHANGED processVars
    /\ \E centers \in Tuples(CenterVals), spatial_size \in Tuples(PatchDims),
          label_spatial_shape \in Tuples(LabelDims), allow_smaller \in BOOLEAN :
          LET r == CorrectCropCenters(centers, spatial_size, label_spatial_shape, allow_smaller)
          IN  /\ fn' = "correct_crop_centers"
              /\ args' = [centers |-> centers, spatial_size |-> spatial_size,
                          label_spatial_shape |-> label_spatial_shape,
                          allow_smaller |-> allow_smaller]
              /\ pc' = IF r.err = "" THEN "done" ELSE "error"
              /\ result' = r.val
              /\ err' = r.err
              /\ local' = ValidRange(spatial_size, label_spatial_shape, allow_smaller)
    /\ UNCHANGED <<warnings, rsDraws, globalDraws, freshDraws>>

(***************************************************************************)
(* Random states.  rand_state = "passed" is a RandomState of the caller;   *)
(* rand_state = "None" makes the function choose one itself.  A draw is a  *)
(* nondeterministic value; the counters record whose state it advanced.    *)
(***************************************************************************)
RandStates == {"None", "passed"}

\* rand_state.rand(): u stands for the number u / RandScale of [0, 1)
RandVals == 0..(RandScale - 1)

\* unravel_index(idx, shape), row-major: the stride of axis i is the product
\* of the dimensions after it
RECURSIVE Stride(_, _)
Stride(shape, i) == IF i >= Len(shape) THEN 1 ELSE shape[i + 1] * Stride(shape, i + 1)

UnravelIndex(idx, shape) == [i \in DOMAIN shape |-> (idx \div Stride(shape, i)) % shape[i]]

RECURSIVE Prod(_, _)
Prod(shape, i) == IF i > Len(shape) THEN 1 ELSE shape[i] * Prod(shape, i + 1)

\* the ascending sequence of the elements of a finite set of integers
RECURSIVE SortedSeq(_)
SortedSeq(S) ==
    IF S = {} THEN <<>>
    ELSE LET m == CHOOSE x \in S : \A y \in S : x <= y
         IN  <<m>> \o SortedSeq(S \ {m})

(***************************************************************************)
(* generate_pos_neg_label_crop_centers                                     *)
(***************************************************************************)
\* if rand_state is None: rand_state = np.random.random.__self__
\* (the RandomState behind numpy's module-level functions)
PosNegGeneratorGlobalOnly(rand_state) == "global"
PosNegGenerator(rand_state) == IF rand_state = "None" THEN "global" ELSE "passed"

\* len(fg_indices) == 0 and len(bg_indices) == 0
NoSamplingLocationFgOnly(fg_indices, bg_indices) == Len(fg_indices) = 0 /\ Len(bg_indices) # 0
NoSamplingLocation(fg_indices, bg_indices) == Len(fg_indices) = 0 /\ Len(bg_indices) = 0

\* len(fg_indices) == 0 or len(bg_indices) == 0
OneSetEmpty(fg_indices, bg_indices) == Len(fg_indices) = 0 \/ Len(bg_indices) = 0

\* pos_ratio = 0 if len(fg_indices) == 0 else 1   (in units of 1 / RandScale)
ForcedPosRatioSwapped(fg_indices) == IF Len(fg_indices) = 0 THEN RandScale ELSE 0
ForcedPosRatio(fg_indices) == IF Len(fg_indices) = 0 THEN 0 ELSE RandScale

\* fg_indices if rand_state.rand() < pos_ratio else bg_indices
PickSet(u, pos_ratio) == IF u < pos_ratio THEN "fg" ELSE "bg"

\* the draws of `n` numbers, counted on the generator in use
Drawn(gen, n) ==
    /\ rsDraws' = IF gen = "passed" THEN rsDraws + n ELSE rsDraws
    /\ globalDraws' = IF gen = "global" THEN globalDraws + n ELSE globalDraws
    /\ freshDraws' = IF gen = "fresh" THEN freshDraws + n ELSE freshDraws

\* the index sets a caller passes: ascending, disjoint (as
\* map_binary_to_indices returns them), below the number of positions
FlatPositions(shape) == 0..(Min(Prod(shape, 1), MaxFlat) - 1)
GenShapes == {sh \in Tuples(1..MaxGenDim) : sh[1] >= sh[2]}
GenSizes == {[i \in Axes |-> p] : p \in {1, MaxGenDim, MaxGenDim + 1}}
PosRatios == 0..RandScale

\* lines 545-559: the prologue, up to the first iteration
CallPosNeg ==
    /\ pc = "idle"
    /\ UNCHANGED processVars
    /\ \E spatial_size \in GenSizes, num_samples \in 0..MaxSamples, pos_ratio \in PosRatios,
          label_spatial_shape \in GenShapes, rand_state \in RandStates,
          allow_smaller \in BOOLEAN :
       \E fg \in SUBSET FlatPositions(label_spatial_shape) :
       \E bg \in SUBSET (FlatPositions(label_spatial_shape) \ fg) :
          LET fg_indices == SortedSeq(fg)
              bg_indices == SortedSeq(bg)
          IN  /\ fn' = "generate_pos_neg_label_crop_centers"
              /\ args' = [spatial_size |-> spatial_size, num_samples |-> num_samples,
                          pos_ratio |-> pos_ratio, label_spatial_shape |-> label_spatial_shape,
                          fg_indices |-> fg_indices, bg_indices |-> bg_indices,
                          rand_state |-> rand_state, allow_smaller |-> allow_smaller]
              /\ IF NoSamplingLocation(fg_indices, bg_indices)
                 THEN /\ pc' = "error"
                      /\ err' = "ValueError: No sampling location available."
                      /\ local' = <<>>
                      /\ warnings' = warnings
                 ELSE /\ pc' = "pos_neg_loop"
                      /\ err' = ""
                      /\ local' = [centers |-> <<>>, picks |-> <<>>,
                                   gen |-> PosNegGenerator(rand_state),
                                   pos_ratio |-> IF OneSetEmpty(fg_indices, bg_indices)
                                                 THEN ForcedPosRatio(fg_indices)
                                                 ELSE pos_ratio]
                      /\ warnings' = IF OneSetEmpty(fg_indices, bg_indices)
                                     THEN Append(warnings, "unable to generate class balanced samples")
                                     ELSE warnings
    /\ UNCHANGED <<result, rsDraws, globalDraws, freshDraws>>

\* lines 561-567: one iteration of `for _ in range(num_samples)`
PosNegIter ==
    /\ pc = "pos_neg_loop"
    /\ UNCHANGED processVars
    /\ Len(local.centers) < args.num_samples
    /\ \E u \in RandVals :
          LET pick == PickSet(u, local.pos_ratio)
              indices_to_use == IF pick = "fg" THEN args.fg_indices ELSE args.bg_indices
          IN  IF Len(indices_to_use) = 0
              THEN \* rand_state.randint(0) raises before drawing
                   /\ pc' = "error"
                   /\ err' = "ValueError: randint high <= 0"
                   /\ local' = [local EXCEPT !.picks = Append(@, pick)]
                   /\ Drawn(local.gen, 1)
              ELSE \E random_int \in 0..(Len(indices_to_use) - 1) :
                   LET center == UnravelIndex(indices_to_use[random_int + 1],
                                              args.label_spatial_shape)
                       r == CorrectCropCenters(center, args.spatial_size,
                                               args.label_spatial_shape, args.allow_smaller)
                   IN  /\ Drawn(local.gen, 2)
                       /\ IF r.err # ""
                          THEN /\ pc' = "error"
                               /\ err' = r.err
                               /\ local' = [local EXCEPT !.picks = Append(@, pick)]
                          ELSE /\ pc' = pc
                               /\ err' = err
                               /\ local' = [local EXCEPT !.picks = Append(@, pick),
                                                         !.centers = Append(@, r.val)]
    /\ UNCHANGED <<fn, args, result, warnings>>

\* line 569: return ensure_tuple(centers), once range(num_samples) is used up
PosNegReturn ==
    /\ pc = "pos_neg_loop"
    /\ UNCHANGED processVars
    /\ Len(local.centers) >= args.num_samples
    /\ pc' = "done"
    /\ result' = local.centers
    /\ UNCHANGED <<fn, args, err, warnings, local, rsDraws, globalDraws, freshDraws>>

(***************************************************************************)
(* generate_label_classes_crop_centers                                     *)
(***************************************************************************)
\* if rand_state is None: rand_state = np.random.random.__self__
ClassesGenerator(rand_state) == IF rand_state = "None" THEN "global" ELSE "passed"

\* list(ensure_tuple([1] * len(indices) if ratios is None else ratios));
\* ratios.none says that the argument is None
DefaultRatiosIgnoringGiven(indices, ratios) == [i \in 1..Len(indices) |-> 1]
DefaultRatios(indices, ratios) ==
    IF ratios.none THEN [i \in 1..Len(indices) |-> 1] ELSE ratios.val

\* num_samples < 1
TooFewSamplesNegativeOnly(num_samples) == num_samples < 0
TooFewSamples(num_samples) == num_samples < 1

\* len(ratios_) != len(indices)
RatiosMismatch(ratios_, indices) == Len(ratios_) # Len(indices)

\* any(i < 0 for i in ratios_)
AnyNegative(ratios_) == \E i \in DOMAIN ratios_ : ratios_[i] < 0

\* for i, array in enumerate(indices): if len(array) == 0: ratios_[i] = 0
ZeroEmptyClassesSkipped(ratios_, indices) == ratios_
ZeroEmptyClasses(ratios_, indices) ==
    [i \in DOMAIN ratios_ |-> IF Len(indices[i]) = 0 THEN 0 ELSE ratios_[i]]

\* the classes the loop above warns about, in order
RECURSIVE EmptyClassWarnings(_, _)
EmptyClassWarnings(indices, i) ==
    IF i > Len(indices) THEN <<>>
    ELSE (IF Len(indices[i]) = 0 THEN <<<<"no available indices of class", i - 1>>>> ELSE <<>>)
         \o EmptyClassWarnings(indices, i + 1)

RECURSIVE SumTo(_, _)
SumTo(ratios_, i) == IF i = 0 THEN 0 ELSE ratios_[i] + SumTo(ratios_, i - 1)

\* rand_state.choice(n, p=ratios_ / sum): the inverse CDF of one uniform
\* draw; v stands for the draw scaled by the sum, and the class drawn is the
\* first whose cumulative ratio exceeds it
ChoiceClass(ratios_, v) ==
    CHOOSE i \in DOMAIN ratios_ :
        /\ SumTo(ratios_, i) > v
        /\ \A j \in 1..(i - 1) : SumTo(ratios_, j) <= v

RatioVals == -1..1
RatioArgs(k) ==
    {[none |-> TRUE, val |-> <<>>]}
    \cup {[none |-> FALSE, val |-> r] : r \in [1..k -> RatioVals] \cup {[i \in 1..(k - 1) |-> 1]}}

\* the index sets of k classes: disjoint and ascending, as
\* map_classes_to_indices returns them for a single-channel label
ClassIndexSets(shape, k) ==
    {[c \in 1..k |-> SortedSeq({q \in FlatPositions(shape) : f[q] = c})] :
        f \in [FlatPositions(shape) -> 0..k]}

\* ROI sizes that fit every label shape, or exceed every one
ClassSizes == {[i \in Axes |-> p] : p \in {1, MaxGenDim + 1}}

\* line 620: np.sum(ratios_), the divisor of the probabilities
RatioTotal(ratios_) == SumTo(ratios_, Len(ratios_))

\* lines 600-620: the prologue, up to and including the draw of the classes
CallClasses ==
    /\ pc = "idle"
    /\ UNCHANGED processVars
    /\ \E spatial_size \in ClassSizes, num_samples \in 0..MaxSamples,
          label_spatial_shape \in GenShapes, rand_state \in RandStates,
          allow_smaller \in BOOLEAN, warn \in BOOLEAN, k \in 1..MaxClasses :
       \E indices \in ClassIndexSets(label_spatial_shape, k), ratios \in RatioArgs(k) :
          LET ratios0 == DefaultRatios(indices, ratios)
              fail == IF TooFewSamples(num_samples)
                         THEN "ValueError: num_samples must be greater than 0"
                      ELSE IF RatiosMismatch(ratios0, indices)
                         THEN "ValueError: ratios must match the number of classes"
                      ELSE IF AnyNegative(ratios0)
                         THEN "ValueError: ratios should not contain negative number"
                      ELSE ""
          IN  /\ fn' = "generate_label_classes_crop_centers"
              /\ args' = [spatial_size |-> spatial_size, num_samples |-> num_samples,
                          label_spatial_shape |-> label_spatial_shape, indices |-> indices,
                          ratios |-> ratios, rand_state |-> rand_state,
                          allow_smaller |-> allow_smaller, warn |-> warn]
              /\ IF fail # ""
                 THEN /\ pc' = "error"
                      /\ err' = fail
                      /\ local' = <<>>
                      /\ warnings' = warnings
                      /\ UNCHANGED <<rsDraws, globalDraws, freshDraws>>
                 ELSE LET ratios_ == ZeroEmptyClasses(ratios0, indices)
                          total == RatioTotal(ratios_)
                          warned == IF warn THEN warnings \o EmptyClassWarnings(indices, 1)
                                    ELSE warnings
                      IN  IF total = 0
                          THEN \* p is 0/0: choice rejects it before drawing
                               /\ pc' = "error"
                               /\ err' = "ValueError: probabilities contain NaN"
                               /\ local' = <<>>
                               /\ warnings' = warned
                               /\ UNCHANGED <<rsDraws, globalDraws, freshDraws>>
                          ELSE \E v \in [1..num_samples -> 0..(total - 1)] :
                               /\ pc' = "classes_loop"
                               /\ err' = ""
                               /\ local' = [centers |-> <<>>, ratios_ |-> ratios_,
                                            gen |-> ClassesGenerator(rand_state),
                                            classes |-> [n \in 1..num_samples |->
                                                            ChoiceClass(ratios_, v[n])]]
                               /\ warnings' = warned
                               /\ Drawn(ClassesGenerator(rand_state), num_samples)
    /\ UNCHANGED result

\* lines 621-627: one iteration of `for i in classes`
ClassesIter ==
    /\ pc = "classes_loop"
    /\ UNCHANGED processVars
    /\ Len(local.centers) < Len(local.classes)
    /\ LET i == local.classes[Len(local.centers) + 1]
           indices_to_use == args.indices[i]
       IN  IF Len(indices_to_use) = 0
           THEN \* rand_state.randint(0) raises before drawing
                /\ pc' = "error"
                /\ err' = "ValueError: randint high <= 0"
                /\ UNCHANGED <<local, rsDraws, globalDraws, freshDraws>>
           ELSE \E random_int \in 0..(Len(indices_to_use) - 1) :
                LET center == UnravelIndex(indices_to_use[random_int + 1],
                                           args.label_spatial_shape)
                    r == CorrectCropCenters(center, args.spatial_size,
                                            args.label_spatial_shape, args.allow_smaller)
                IN  /\ Drawn(local.gen, 1)
                    /\ IF r.err # ""
                       THEN /\ pc' = "error"
                            /\ err' = r.err
                            /\ local' = local
                       ELSE /\ pc' = pc
                            /\ err' = err
                            /\ local' = [local EXCEPT !.centers = Append(@, r.val)]
    /\ UNCHANGED <<fn, args, result, warnings>>

\* line 629: return ensure_tuple(centers)
ClassesReturn ==
    /\ pc = "classes_loop"
    /\ UNCHANGED processVars
    /\ Len(local.centers) = Len(local.classes)
    /\ pc' = "done"
    /\ result' = local.centers
    /\ UNCHANGED <<fn, args, err, warnings, local, rsDraws, globalDraws, freshDraws>>

(***************************************************************************)
(* check_non_lazy_pending_ops.  pending says that the input array is a     *)
(* MetaTensor with a non-empty list of pending operations.                 *)
(***************************************************************************)
PendingMessage == "The input image is a MetaTensor and has pending operations"

LazyRaisesAlways(pending, raise_error) == pending

\* lines 314-320: the check ends in ValueError
LazyRaises(pending, raise_error) == pending /\ raise_error

\* lines 314-321: the warnings after the check, when it does not raise
LazyWarned(w, pending, raise_error) ==
    IF pending /\ ~raise_error THEN Append(w, PendingMessage) ELSE w

\* the inputs: arrays of up to MaxLazyCells elements may carry pending
\* operations
PendingFor(sh) == IF Prod(sh, 1) <= MaxLazyCells THEN BOOLEAN ELSE {FALSE}

\* lines 303-321: a direct call
CallCheckNonLazy ==
    /\ pc = "idle"
    /\ UNCHANGED processVars
    /\ \E pending \in BOOLEAN, raise_error \in BOOLEAN :
          /\ fn' = "check_non_lazy_pending_ops"
          /\ args' = [pending |-> pending, raise_error |-> raise_error]
          /\ IF LazyRaises(pending, raise_error)
             THEN /\ pc' = "error"
                  /\ err' = "ValueError: pending operations"
                  /\ warnings' = warnings
             ELSE /\ pc' = "done"
                  /\ err' = ""
                  /\ warnings' = LazyWarned(warnings, pending, raise_error)
    /\ UNCHANGED <<result, local, rsDraws, globalDraws, freshDraws>>

(***************************************************************************)
(* weighted_patch_samples.  The weight map w is a floating-point array     *)
(* with integer values: w[i][j] is the weight of position (i - 1, j - 1).  *)
(***************************************************************************)
\* if r_state is None: r_state = np.random.RandomState()
WeightedGenerator(r_state) == IF r_state = "None" THEN "fresh" ELSE "passed"

\* slice(w // 2, m - w + w // 2) if m > w else slice(m // 2, m // 2 + 1):
\* the first index of the window of one axis, and its length
WinStart(win, m) == IF m > win THEN win \div 2 ELSE m \div 2
WinLen(win, m) == IF m > win THEN m - win ELSE 1

\* ravel(w[s]): the window's weights in row-major order
WindowWeights(w, win_size, img_size) ==
    LET v_size == [i \in Axes |-> WinLen(win_size[i], img_size[i])]
        n == Prod(v_size, 1)
    IN  [q \in 1..n |->
            LET c == UnravelIndex(q - 1, v_size)
            IN  w[WinStart(win_size[1], img_size[1]) + c[1] + 1]
                 [WinStart(win_size[2], img_size[2]) + c[2] + 1]]

RECURSIVE SeqMin(_, _)
SeqMin(v, i) == IF i = 1 THEN v[1] ELSE Min(v[i], SeqMin(v, i - 1))

\* if (v < 0).any(): v -= v.min()
ShiftNonNegative(v) ==
    IF \E i \in DOMAIN v : v[i] < 0
    THEN [i \in DOMAIN v |-> v[i] - SeqMin(v, Len(v))]
    ELSE v

\* cumsum(v)
CumSum(v) == [i \in DOMAIN v |-> SumTo(v, i)]

UniformFallbackNegativeOnly(v) == v[Len(v)] < 0

\* not v[-1] or not isfinite(v[-1]) or v[-1] < 0   (v is the cumulative sum;
\* the weights of the model are finite)
UniformFallback(v) == v[Len(v)] = 0 \/ v[Len(v)] < 0

SearchSortedLeft(v, x) == Cardinality({i \in DOMAIN v : v[i] < x})

\* searchsorted(v, x, right=True): the number of entries <= x
SearchSortedRight(v, x) == Cardinality({i \in DOMAIN v : v[i] <= x})

CompensatePatchOnly(win_size, img_size) == [i \in Axes |-> win_size[i] \div 2]

\* np.minimum(win_size, img_size) // 2
Compensate(win_size, img_size) == [i \in Axes |-> Min(win_size[i], img_size[i]) \div 2]

\* unravel_index(i, v_size) + diff, for every flat index i of the window
WeightedLocations(v_size, diff) ==
    [q \in 0..(Prod(v_size, 1) - 1) |->
        LET c == UnravelIndex(q, v_size) IN [i \in Axes |-> c[i] + diff[i]]]

\* the inputs: the shapes up to MaxWDim with a first axis at least as long as
\* the second, and the windows of at most MaxCells positions; the weights of
\* the first two rows and columns range over WeightVals and the other
\* positions weigh 0 (with MaxWDim = 3 no window reaches the third index of
\* an axis, so no window is lost)
WShapes == {sh \in Tuples(1..MaxWDim) : sh[1] >= sh[2]}
WeightVals == -1..MaxWeight
WeightMaps(sh) ==
    {[i \in 1..sh[1] |-> [j \in 1..sh[2] |-> IF i <= 2 /\ j <= 2 THEN f[i][j] ELSE 0]] :
        f \in [1..Min(sh[1], 2) -> [1..Min(sh[2], 2) -> WeightVals]]}

\* the flat indices the draws can locate: randint(0, len(v)) in the uniform
\* fallback; otherwise searchsorted of x = r * v[-1], r drawn from [0, 1)
\* (the integer points x of [0, v[-1]) reach every index a real x reaches;
\* the draws are exact reals, not rounded to the dtype of v)
LocatedIndices(v) ==
    IF UniformFallback(v)
    THEN 0..(Len(v) - 1)
    ELSE {SearchSortedRight(v, x) : x \in 0..(v[Len(v)] - 1)}

\* lines 443-467: the whole function; its draws are single vectorised calls
CallWeighted ==
    /\ pc = "idle"
    /\ UNCHANGED processVars
    /\ \E img_size \in WShapes, spatial_size \in Tuples(1..MaxWDim),
          n_samples \in 0..MaxSamples, r_state \in RandStates :
       \E w \in WeightMaps(img_size), pending \in PendingFor(img_size) :
       \E win_size \in {FallBackTuple(spatial_size, img_size)} :
       \E v_size \in {[i \in Axes |-> WinLen(win_size[i], img_size[i])]} :
       Prod(v_size, 1) <= MaxCells /\
       \E v \in {CumSum(ShiftNonNegative(WindowWeights(w, win_size, img_size)))} :
       \E diff \in {Compensate(win_size, img_size)} :
       \E located \in {LocatedIndices(v)} :
       \E loc \in {WeightedLocations(v_size, diff)} :
       \E idx \in [1..n_samples -> located] :
          /\ fn' = "weighted_patch_samples"
          /\ args' = [spatial_size |-> spatial_size, w |-> w, img_size |-> img_size,
                      n_samples |-> n_samples, r_state |-> r_state,
                      pending |-> pending]
          /\ warnings' = LazyWarned(warnings, pending, FALSE)
          /\ pc' = "done"
          /\ err' = ""
          /\ Drawn(WeightedGenerator(r_state), n_samples)
          /\ result' = [n \in 1..n_samples |-> loc[idx[n]]]
          /\ local' = [uniform |-> UniformFallback(v), idx |-> idx, v |-> v,
                       support |-> located]

(***************************************************************************)
(* generate_spatial_bounding_box.  img is channel-first: img[c][x] is the  *)
(* value of channel c (from 1) at the voxel x, a tuple of 0-based indices. *)
(* A boolean array is the set of the index tuples where it is true.        *)
(***************************************************************************)
\* def is_positive(img): return img > 0
IsPositive(x) == x > 0

\* img[list(ensure_tuple(channel_indices))] if channel_indices is not None
\* else img: the channels the box is computed from
SelectedChannels(channels, channel_indices) ==
    IF channel_indices.none THEN 1..channels ELSE {channel_indices.val + 1}

\* select_fn(data).any(0), with the default select_fn
SelectAny(img, sel, voxels) == {x \in voxels : \E c \in sel : IsPositive(img[c][x])}

\* the index tuple x without its axis a (0-based)
DropAxis(x, a) == [i \in 1..(Len(x) - 1) |-> IF i <= a THEN x[i] ELSE x[i + 1]]

\* any_np_pt(dt, ax): logical OR over the axes of ax, one axis after the other
RECURSIVE AnyNpPt(_, _)
AnyNpPt(dt, ax) ==
    IF ax = <<>> THEN dt
    ELSE AnyNpPt({DropAxis(x, ax[1]) : x \in dt}, Tail(ax))

AscendingRange(ndim) == [i \in 1..ndim |-> i - 1]

\* reversed(range(ndim))
ReversedRange(ndim) == [i \in 1..ndim |-> ndim - i]

\* itertools.combinations(seq, k): the k-element subsequences of seq in
\* lexicographic order of their positions
RECURSIVE Combinations(_, _)
Combinations(seq, k) ==
    IF k = 0 THEN <<<<>>>>
    ELSE IF Len(seq) < k THEN <<>>
    ELSE LET with == Combinations(Tail(seq), k - 1)
             without == Combinations(Tail(seq), k)
         IN  [j \in 1..Len(with) |-> <<Head(seq)>> \o with[j]] \o without

AllNegativeMargin(margin) == \A i \in DOMAIN margin : margin[i] < 0

\* for m in margin: if m < 0: raise ValueError
NegativeMargin(margin) == \E i \in DOMAIN margin : margin[i] < 0

\* arg_max = where(dt == dt.max())[0] of a 1-D boolean array with a true
\* value: its true indices in ascending order; arg_max[0] and arg_max[-1]
ArgMaxFirst(dt) == CHOOSE a \in {x[1] : x \in dt} : \A x \in dt : a <= x[1]
ArgMaxLast(dt) == CHOOSE a \in {x[1] : x \in dt} : \A x \in dt : a >= x[1]

MinDUnclipped(dt, m, allow_smaller) == ArgMaxFirst(dt) - m

\* min_d = arg_max[0] - margin[di]; if allow_smaller: min_d = max(min_d, 0)
MinD(dt, m, allow_smaller) ==
    IF allow_smaller THEN Max(ArgMaxFirst(dt) - m, 0) ELSE ArgMaxFirst(dt) - m

MaxDInclusive(dt, m, size, allow_smaller) ==
    IF allow_smaller THEN Min(ArgMaxLast(dt) + m, size) ELSE ArgMaxLast(dt) + m

\* max_d = arg_max[-1] + margin[di] + 1;
\* if allow_smaller: max_d = min(max_d, spatial_size[di])
MaxD(dt, m, size, allow_smaller) ==
    IF allow_smaller THEN Min(ArgMaxLast(dt) + m + 1, size) ELSE ArgMaxLast(dt) + m + 1

\* lines 984-1003: the loop over the axes from iteration di (0-based) on,
\* with the boxes filled so far; an empty projection returns the zero boxes
RECURSIVE BoxLoop(_, _, _, _, _, _, _, _)
BoxLoop(di, axes, data, margin, spatial_size, allow_smaller, box_start, box_end) ==
    IF di >= Len(axes) THEN <<box_start, box_end>>
    ELSE LET ax == axes[di + 1]
             dt == IF Len(ax) # 0 THEN AnyNpPt(data, ax) ELSE data
         IN  IF dt = {}
             THEN <<[i \in DOMAIN spatial_size |-> 0], [i \in DOMAIN spatial_size |-> 0]>>
             ELSE BoxLoop(di + 1, axes, data, margin, spatial_size, allow_smaller,
                          [box_start EXCEPT ![di + 1] = MinD(dt, margin[di + 1], allow_smaller)],
                          [box_end EXCEPT ![di + 1] =
                              MaxD(dt, margin[di + 1], spatial_size[di + 1], allow_smaller)])

\* lines 981-1003
SpatialBoundingBox(data, margin, spatial_size, allow_smaller) ==
    LET ndim == Len(spatial_size)
    IN  BoxLoop(0, Combinations(ReversedRange(ndim), ndim - 1), data, margin,
                spatial_size, allow_smaller, [i \in 1..ndim |-> 0], [i \in 1..ndim |-> 0])

\* the inputs: volumes of rank 1 to 3 with up to MaxVoxels voxels, one or two
\* channels, at most two positive voxels, and one value for the others (0, or
\* -1 in a single-channel volume)
BoxShapes ==
    {sh \in UNION {[1..r -> 1..MaxBoxDim] : r \in 1..3} : Prod(sh, 1) <= MaxVoxels}
Voxels(sh) == {x \in [1..Len(sh) -> 0..(MaxBoxDim - 1)] : \A i \in 1..Len(sh) : x[i] < sh[i]}
BoxImages(sh, channels) ==
    LET cells == (1..channels) \X Voxels(sh)
    IN  {[c \in 1..channels |-> [x \in Voxels(sh) |-> IF <<c, x>> \in pos THEN 1 ELSE rest]] :
            pos \in {{a, b} : a, b \in cells} \cup {{}},
            rest \in IF channels = 1 THEN {-1, 0} ELSE {0}}
ChannelIndices(channels) ==
    {[none |-> TRUE, val |-> 0]} \cup
    IF channels > 1 THEN {[none |-> FALSE, val |-> channels - 1]} ELSE {}
MarginVals == {-1, 0, MaxMargin}

\* lines 971-1003: the whole function
CallBoundingBox ==
    /\ pc = "idle"
    /\ UNCHANGED processVars
    /\ \E sh \in BoxShapes, channels \in 1..2, allow_smaller \in BOOLEAN :
       \E img \in BoxImages(sh, channels), channel_indices \in ChannelIndices(channels),
          pending \in PendingFor(sh) :
       \E data \in {SelectAny(img, SelectedChannels(channels, channel_indices), Voxels(sh))} :
       \E margin \in [1..Len(sh) -> MarginVals] :
          /\ fn' = "generate_spatial_bounding_box"
          /\ args' = [img |-> img, spatial_size |-> sh, channel_indices |-> channel_indices,
                      margin |-> margin, allow_smaller |-> allow_smaller,
                      pending |-> pending]
          /\ warnings' = LazyWarned(warnings, pending, FALSE)
          /\ local' = [data |-> data]
          /\ IF NegativeMargin(margin)
             THEN /\ pc' = "error"
                  /\ err' = "ValueError: margin value should not be negative number"
                  /\ result' = result
             ELSE /\ pc' = "done"
                  /\ err' = ""
                  /\ result' = SpatialBoundingBox(data, margin, sh, allow_smaller)
    /\ UNCHANGED <<rsDraws, globalDraws, freshDraws>>

(***************************************************************************)
(* map_binary_to_indices and map_classes_to_indices.  label and image are  *)
(* channel-first arrays of the same 2-D spatial shape: label[c][x] is the  *)
(* value of channel c (from 1) at the voxel x, a tuple of 0-based indices. *)
(* A flat boolean array is the set of the flat indices where it is true.   *)
(***************************************************************************)
\* ravel: the row-major flat index of the voxel x of an array of shape sh
Ravel(x, sh) == x[1] * sh[2] + x[2]

KeepEveryChannel(channels) == 1..channels

\* if label.shape[0] > 1: label = label[1:]
DropBackground(channels) == IF channels > 1 THEN 2..channels ELSE 1..channels

\* ravel(any_np_pt(label, 0)): true where a channel of chans is non-zero
AnyNonZeroFlat(label, chans, sh) ==
    {Ravel(x, sh) : x \in {y \in Voxels(sh) : \E c \in chans : label[c][y] # 0}}

\* ravel(any_np_pt(image > image_threshold, 0))
ImageMask(image, image_threshold, sh) ==
    {Ravel(x, sh) : x \in {y \in Voxels(sh) :
                              \E c \in DOMAIN image.val : image.val[c][y] > image_threshold}}

\* lines 342-357: the pair (fg_indices, bg_indices); nonzero gives the true
\* indices in ascending order
BinaryIndices(label, channels, image, image_threshold, sh) ==
    LET all == 0..(Prod(sh, 1) - 1)
        label_flat == AnyNonZeroFlat(label, DropBackground(channels), sh)
    IN  <<SortedSeq(label_flat),
          IF ~image.none
          THEN SortedSeq(ImageMask(image, image_threshold, sh) \cap (all \ label_flat))
          ELSE SortedSeq(all \ label_flat)>>

\* the inputs: 2-D shapes of at most MaxIdxCells voxels with a first axis at
\* least as long as the second; arrays with at most two voxels of a value of
\* hi and one value of rest for the others
IdxShapes == {sh \in Tuples(1..MaxBoxDim) : Prod(sh, 1) <= MaxIdxCells /\ sh[1] >= sh[2]}
SparseArrays(channels, sh, hi, rest) ==
    LET cells == (1..channels) \X Voxels(sh)
    IN  {[c \in 1..channels |-> [x \in Voxels(sh) |-> IF <<c, x>> \in pos THEN h ELSE r]] :
            pos \in {{a, b} : a, b \in cells} \cup {{}}, h \in hi, r \in rest}
Images(sh) ==
    {[none |-> TRUE, val |-> <<>>]} \cup
    {[none |-> FALSE, val |-> a] : a \in SparseArrays(2, sh, {2}, {0, 1})}
Thresholds == {0, 1}

\* lines 340-357: the whole function
CallMapBinary ==
    /\ pc = "idle"
    /\ UNCHANGED processVars
    /\ \E sh \in IdxShapes, channels \in 1..3 :
       \E images \in {Images(sh)} :
       \E label \in SparseArrays(channels, sh, {-1, 1}, {0}), image \in images :
       \E image_threshold \in IF image.none THEN {0} ELSE Thresholds :
       \E pending \in PendingFor(sh),
          image_pending \in IF image.none THEN {FALSE} ELSE PendingFor(sh) :
          /\ fn' = "map_binary_to_indices"
          /\ args' = [label |-> label, shape |-> sh, image |-> image,
                      image_threshold |-> image_threshold,
                      pending |-> pending, image_pending |-> image_pending]
          /\ warnings' = LazyWarned(LazyWarned(warnings, pending, FALSE),
                                    image_pending, FALSE)
          /\ pc' = "done"
          /\ err' = ""
          /\ result' = BinaryIndices(label, channels, image, image_threshold, sh)
    /\ UNCHANGED <<local, rsDraws, globalDraws, freshDraws>>

\* lines 405-408: ravel(label[c] as bool) for a one-hot label, and
\* ravel(label == c) for a single-channel one
ClassMask(label, channels, c, sh) ==
    IF channels > 1
    THEN AnyNonZeroFlat(label, {c + 1}, sh)
    ELSE {Ravel(x, sh) : x \in {y \in Voxels(sh) : label[1][y] = c}}

NumClassesGiven(channels, num_classes) ==
    IF num_classes.none THEN channels ELSE num_classes.val

\* lines 395-401: num_classes_
NumClasses(channels, num_classes) == IF channels = 1 THEN num_classes.val ELSE channels

\* lines 403-419 without max_samples_per_class: the list of the index
\* arrays of the classes 0 .. num_classes_ - 1
ClassIndices(label, channels, num_classes, image, image_threshold, sh) ==
    [k \in 1..NumClasses(channels, num_classes) |->
        SortedSeq(IF image.none
                  THEN ClassMask(label, channels, k - 1, sh)
                  ELSE ImageMask(image, image_threshold, sh)
                          \cap ClassMask(label, channels, k - 1, sh))]

\* the inputs: a single-channel label with the values 0, 1 and MaxClasses
\* (a class id that no num_classes covers), or a one-hot label; num_classes
\* absent or 1 .. MaxClasses
ClassLabels(channels, sh) ==
    IF channels = 1
    THEN {[c \in {1} |-> f] : f \in [Voxels(sh) -> {0, 1, MaxClasses}]}
    ELSE SparseArrays(channels, sh, {-1, 1}, {0})
NumClassesArgs ==
    {[none |-> TRUE, val |-> 0]} \cup {[none |-> FALSE, val |-> k] : k \in 1..MaxClasses}

\* lines 388-419 with max_samples_per_class=None: the whole function
CallMapClasses ==
    /\ pc = "idle"
    /\ UNCHANGED processVars
    /\ \E sh \in IdxShapes, channels \in 1..2, num_classes \in NumClassesArgs :
       \E images \in {Images(sh)} :
       \E label \in ClassLabels(channels, sh), image \in images :
       \E image_threshold \in IF image.none THEN {0} ELSE Thresholds :
       \E pending \in PendingFor(sh),
          image_pending \in IF image.none THEN {FALSE} ELSE PendingFor(sh) :
          /\ fn' = "map_classes_to_indices"
          /\ args' = [label |-> label, shape |-> sh, num_classes |-> num_classes,
                      image |-> image, image_threshold |-> image_threshold,
                      pending |-> pending, image_pending |-> image_pending]
          /\ warnings' = LazyWarned(LazyWarned(warnings, pending, FALSE),
                                    image_pending, FALSE)
          /\ IF channels = 1 /\ num_classes.none
             THEN /\ pc' = "error"
                  /\ err' = "ValueError: must provide num_classes"
                  /\ result' = result
             ELSE /\ pc' = "done"
                  /\ err' = ""
                  /\ result' = ClassIndices(label, channels, num_classes, image,
                                            image_threshold, sh)
    /\ UNCHANGED <<local, rsDraws, globalDraws, freshDraws>>

\* np.round of the fraction num / den >= 0, rounded down.
RoundDown(num, den) == num \div den

\* np.round of the fraction num / den >= 0: to the nearest integer, a half
\* to the even neighbour.
RoundHalfEven(num, den) ==
    LET q == num \div den
        r == num % den
    IN  IF 2 * r < den THEN q
        ELSE IF 2 * r > den THEN q + 1
        ELSE IF q % 2 = 0 THEN q ELSE q + 1

\* line 414: np.round(np.linspace(0, n - 1, m)).astype(int); linspace has
\* the step (n - 1) / (m - 1), and the single point 0 for m = 1.
SampleId(n, m) ==
    [k \in 1..m |-> IF m = 1 THEN 0 ELSE RoundHalfEven((k - 1) * (n - 1), m - 1)]

\* lines 413-417: max_samples_per_class 0 or None keeps every index.
Subsample(cls_indices, max_samples_per_class) ==
    LET n == Len(cls_indices)
        m == max_samples_per_class
    IN  IF m # 0 /\ n > m /\ n > 1
        THEN [k \in 1..m |-> cls_indices[SampleId(n, m)[k] + 1]]
        ELSE cls_indices

\* lines 388-419 with max_samples_per_class given and no image.
CallMapClassesSampled ==
    /\ pc = "idle"
    /\ UNCHANGED processVars
    /\ \E sh \in IdxShapes, channels \in 1..2, num_classes \in NumClassesArgs,
          max_samples_per_class \in 1..MaxPerClass :
       \E label \in ClassLabels(channels, sh), pending \in PendingFor(sh) :
          /\ fn' = "map_classes_to_indices"
          /\ args' = [label |-> label, shape |-> sh, num_classes |-> num_classes,
                      image |-> [none |-> TRUE, val |-> <<>>], image_threshold |-> 0,
                      pending |-> pending, image_pending |-> FALSE,
                      max_samples_per_class |-> max_samples_per_class]
          /\ warnings' = LazyWarned(warnings, pending, FALSE)
          /\ IF channels = 1 /\ num_classes.none
             THEN /\ pc' = "error"
                  /\ err' = "ValueError: must provide num_classes"
                  /\ UNCHANGED <<result, local>>
             ELSE \E full \in {ClassIndices(label, channels, num_classes,
                                            [none |-> TRUE, val |-> <<>>], 0, sh)} :
                  /\ pc' = "done"
                  /\ err' = ""
                  /\ local' = [cls_indices |-> full]
                  /\ result' = [k \in DOMAIN full |->
                                   Subsample(full[k], max_samples_per_class)]
    /\ UNCHANGED <<rsDraws, globalDraws, freshDraws>>

(***************************************************************************)
(* create_control_grid (lines 708-730) and the ranges of create_grid       *)
(* (lines 692-701).  Coordinates are kept doubled, so that the half-       *)
(* integers of linspace(-(n-1)/2*s, (n-1)/2*s, n) are integers.            *)
(***************************************************************************)
\* The fraction num / den > 0 rounded down.
FloorDiv(num, den) == num \div den

\* ceil_func of the fraction num / den, den > 0.
CeilDiv(num, den) == -((-num) \div den)

\* lines 724-727: the entry of grid_shape for one axis; (d - 1) / (2 s) + 0.5
\* is the fraction (d - 1 + s) / (2 s).
GridPoints(d, s) ==
    IF d % 2 = 0
    THEN CeilDiv(d - 1 + s, 2 * s) * 2 + 2
    ELSE CeilDiv(d - 1, 2 * s) * 2 + 3

\* lines 693-699: the n points from -(n-1)/2*s to (n-1)/2*s, doubled.
GridRange(n, s) == [k \in 1..n |-> -(n - 1) * s + 2 * (k - 1) * s]

\* lines 721-730; the meshgrid of the ranges is left as its axes' ranges.
CreateControlGrid(spatial_shape, spacing) ==
    LET grid_shape == [i \in DOMAIN spatial_shape |->
                          GridPoints(spatial_shape[i], spacing[i])]
    IN [grid_shape |-> grid_shape,
        ranges |-> [i \in DOMAIN grid_shape |-> GridRange(grid_shape[i], spacing[i])]]

CallCreateControlGrid ==
    /\ pc = "idle"
    /\ UNCHANGED processVars
    /\ \E rank \in 1..2 :
       \E spatial_shape \in [1..rank -> 1..MaxGridDim], spacing \in [1..rank -> 1..MaxSpacing] :
        /\ fn' = "create_control_grid"
        /\ args' = [spatial_shape |-> spatial_shape, spacing |-> spacing]
        /\ result' = CreateControlGrid(spatial_shape, spacing)
        /\ pc' = "done"
    /\ UNCHANGED <<err, warnings, local, rsDraws, globalDraws, freshDraws>>

(***************************************************************************)
(* convert_applied_interp_mode (lines 1373-1409).  A value of an applied-  *)
(* operation record is absent, a scalar or a sequence: [has, seq, val],    *)
(* val being the sequence or the one-element sequence of the scalar.       *)
(* align_corners values are "True", "False" and "none" (TraceKeys.NONE).   *)
(***************************************************************************)
Absent == [has |-> FALSE, seq |-> FALSE, val |-> <<>>]
Scalar(x) == [has |-> TRUE, seq |-> FALSE, val |-> <<x>>]
Sequence(xs) == [has |-> TRUE, seq |-> TRUE, val |-> xs]

\* line 1373: _interp_modes
InterpModes ==
    {"nearest", "nearest-exact", "linear", "bilinear", "bicubic", "trilinear", "area"}

\* len(mode) of the target mode names drawn
NameLength(mode) ==
    CASE mode = "nearest" -> 7 [] mode = "area" -> 4 [] mode = "bilinear" -> 8
      [] mode = "bicubic" -> 7 [] OTHER -> 0

Copies(x, n) == [i \in 1..n |-> x]

\* lines 1393-1398.  current_mode[0] of a sequence is its first element, of
\* a scalar (a string) its first character, which is no mode's name.
ConvertMode(current, mode) ==
    IF ~current.has THEN current
    ELSE IF current.seq /\ Len(current.val) > 0 /\ current.val[1] \in InterpModes
    THEN Sequence(Copies(mode, NameLength(mode)))
    ELSE IF ~current.seq /\ current.val[1] \in InterpModes
    THEN Scalar(mode)
    ELSE current

\* lines 1399-1404; "for _ in mode" runs over the characters of mode.
ConvertAlignCorners(current, mode, align_corners) ==
    IF ~current.has THEN current
    ELSE IF current.seq
    THEN Sequence(Copies(align_corners, NameLength(mode)))
    ELSE Scalar(align_corners)

\* lines 1390-1409 for one Mapping whose other values are not containers:
\* with neither key, the recursion of lines 1405-1408 returns them as is.
ConvertEntry(e, mode, align_corners) ==
    [mode |-> ConvertMode(e.mode, mode),
     align_corners |-> ConvertAlignCorners(e.align_corners, mode, align_corners),
     id |-> e.id]

\* lines 1388-1389
ConvertAppliedInterpMode(trans_info, mode, align_corners) ==
    [i \in DOMAIN trans_info |-> ConvertEntry(trans_info[i], mode, align_corners)]

AppliedModes ==
    {Absent, Scalar("bilinear"), Scalar("constant"), Sequence(<<"constant">>)}
        \cup {Sequence(Copies("bilinear", n)) : n \in 1..MaxModes}

AppliedAlignCorners ==
    {Absent, Scalar("True")} \cup {Sequence(Copies("True", n)) : n \in 1..MaxModes}

AppliedEntries ==
    {[mode |-> m, align_corners |-> a, id |-> "id"] :
        m \in AppliedModes, a \in AppliedAlignCorners}

CallConvertAppliedInterpMode ==
    /\ pc = "idle"
    /\ UNCHANGED processVars
    /\ \E n \in 1..MaxEntries : \E trans_info \in [1..n -> AppliedEntries] :
       \E mode \in {"nearest", "area"}, align_corners \in {"none", "False"} :
        /\ fn' = "convert_applied_interp_mode"
        /\ args' = [trans_info |-> trans_info, mode |-> mode, align_corners |-> align_corners]
        /\ result' = ConvertAppliedInterpMode(trans_info, mode, align_corners)
        /\ pc' = "done"
    /\ UNCHANGED <<err, warnings, local, rsDraws, globalDraws, freshDraws>>

(***************************************************************************)
(* create_rotate, create_shear, create_scale, create_translate.  A matrix  *)
(* is a sequence of rows; out[i][j] is the entry (i - 1, j - 1).  Angles   *)
(* are quarter turns, whose sine and cosine are exact.                     *)
(***************************************************************************)
\* eye_func(n)
Eye(n) == [i \in 1..n |-> [j \in 1..n |-> IF i = j THEN 1 ELSE 0]]

\* np.diag(d)
Diag(d) == [i \in 1..Len(d) |-> [j \in 1..Len(d) |-> IF i = j THEN d[i] ELSE 0]]

\* a @ b
MatMul(a, b) ==
    [i \in 1..Len(a) |-> [j \in 1..Len(b[1]) |->
        SumTo([k \in 1..Len(b) |-> a[i][k] * b[k][j]], Len(b))]]

\* ensure_tuple_size(vals, dim, pad_val): padded with pad_val and cut to dim
EnsureTupleSize(vals, dim, pad_val) ==
    [i \in 1..dim |-> IF i <= Len(vals) THEN vals[i] ELSE pad_val]

\* sin_func and cos_func of a quarter-turn count
Sin(q) == CASE q % 4 = 0 -> 0 [] q % 4 = 1 -> 1 [] q % 4 = 2 -> 0 [] OTHER -> -1
Cos(q) == CASE q % 4 = 0 -> 1 [] q % 4 = 1 -> 0 [] q % 4 = 2 -> -1 [] OTHER -> 0

\* out[i, j] = v for the entries of the 0-based positions of e
SetEntries(out, e) ==
    [i \in DOMAIN out |-> [j \in DOMAIN out[i] |->
        IF <<i - 1, j - 1>> \in DOMAIN e THEN e[<<i - 1, j - 1>>] ELSE out[i][j]]]

\* lines 781-784: the 3 x 3 rotation
Rotate2D(q) ==
    SetEntries(Eye(3), [p \in {<<0, 0>>, <<0, 1>>, <<1, 0>>, <<1, 1>>} |->
        CASE p = <<0, 0>> -> Cos(q) [] p = <<0, 1>> -> -Sin(q)
          [] p = <<1, 0>> -> Sin(q) [] OTHER -> Cos(q)])

\* lines 791-794, 796-801, 804-809: the rotation about axis 0, 1 or 2
RotateAxis(axis, q) ==
    CASE axis = 0 ->
            SetEntries(Eye(4), [p \in {<<1, 1>>, <<1, 2>>, <<2, 1>>, <<2, 2>>} |->
                CASE p = <<1, 1>> -> Cos(q) [] p = <<1, 2>> -> -Sin(q)
                  [] p = <<2, 1>> -> Sin(q) [] OTHER -> Cos(q)])
      [] axis = 1 ->
            SetEntries(Eye(4), [p \in {<<0, 0>>, <<0, 2>>, <<2, 0>>, <<2, 2>>} |->
                CASE p = <<0, 0>> -> Cos(q) [] p = <<0, 2>> -> Sin(q)
                  [] p = <<2, 0>> -> -Sin(q) [] OTHER -> Cos(q)])
      [] OTHER ->
            SetEntries(Eye(4), [p \in {<<0, 0>>, <<0, 1>>, <<1, 0>>, <<1, 1>>} |->
                CASE p = <<0, 0>> -> Cos(q) [] p = <<0, 1>> -> -Sin(q)
                  [] p = <<1, 0>> -> Sin(q) [] OTHER -> Cos(q)])

\* lines 790-810: the product of the rotations of the first three angles
Rotate3D(radians) ==
    LET a1 == RotateAxis(0, radians[1])
        a2 == IF Len(radians) >= 2 THEN MatMul(a1, RotateAxis(1, radians[2])) ELSE a1
    IN  IF Len(radians) >= 3 THEN MatMul(a2, RotateAxis(2, radians[3])) ELSE a2

\* lines 778-815: _create_rotate
CreateRotate(spatial_dims, radians) ==
    CASE spatial_dims = 2 ->
            IF Len(radians) >= 1
            THEN [err |-> "", val |-> Rotate2D(radians[1])]
            ELSE [err |-> "ValueError: radians must be non empty", val |-> <<>>]
      [] spatial_dims = 3 ->
            IF Len(radians) >= 1
            THEN [err |-> "", val |-> Rotate3D(radians)]
            ELSE [err |-> "ValueError: radians must be non empty", val |-> <<>>]
      [] OTHER -> [err |-> "ValueError: Unsupported spatial_dims", val |-> <<>>]

\* lines 856-869: _create_shear
CreateShear(spatial_dims, coefs) ==
    CASE spatial_dims = 2 ->
            LET c == EnsureTupleSize(coefs, 2, 0)
            IN  [err |-> "",
                 val |-> SetEntries(Eye(3), [p \in {<<0, 1>>, <<1, 0>>} |->
                            IF p = <<0, 1>> THEN c[1] ELSE c[2]])]
      [] spatial_dims = 3 ->
            LET c == EnsureTupleSize(coefs, 6, 0)
            IN  [err |-> "",
                 val |-> SetEntries(Eye(4),
                            [p \in {<<0, 1>>, <<0, 2>>, <<1, 0>>, <<1, 2>>, <<2, 0>>, <<2, 1>>} |->
                                CASE p = <<0, 1>> -> c[1] [] p = <<0, 2>> -> c[2]
                                  [] p = <<1, 0>> -> c[3] [] p = <<1, 2>> -> c[4]
                                  [] p = <<2, 0>> -> c[5] [] OTHER -> c[6]])]
      [] OTHER -> [err |-> "NotImplementedError: spatial_dims", val |-> <<>>]

\* lines 899-901: _create_scale
CreateScale(spatial_dims, scaling_factor) ==
    Diag(Append(EnsureTupleSize(scaling_factor, spatial_dims, 1), 1))

CreateTranslateTransposed(spatial_dims, shift) ==
    SetEntries(Eye(spatial_dims + 1),
               [p \in {<<spatial_dims, i - 1>> : i \in 1..Min(Len(shift), spatial_dims)} |->
                   shift[p[2] + 1]])

\* lines 933-940: _create_translate
CreateTranslate(spatial_dims, shift) ==
    SetEntries(Eye(spatial_dims + 1),
               [p \in {<<i - 1, spatial_dims>> : i \in 1..Min(Len(shift), spatial_dims)} |->
                   shift[p[1] + 1]])

\* the inputs: every rank up to MaxRank, and every parameter list of a length
\* up to one more than the function reads
ParamLists(vals, n) == UNION {[1..k -> vals] : k \in 0..n}
QuarterTurns == 0..3

CallCreateRotate ==
    /\ pc = "idle"
    /\ UNCHANGED processVars
    /\ \E spatial_dims \in 1..MaxRank, radians \in ParamLists(QuarterTurns, MaxAngles) :
       \E r \in {CreateRotate(spatial_dims, radians)} :
          /\ fn' = "create_rotate"
          /\ args' = [spatial_dims |-> spatial_dims, params |-> radians]
          /\ pc' = IF r.err = "" THEN "done" ELSE "error"
          /\ err' = r.err
          /\ result' = r.val
    /\ UNCHANGED <<warnings, local, rsDraws, globalDraws, freshDraws>>

CallCreateShear ==
    /\ pc = "idle"
    /\ UNCHANGED processVars
    /\ \E spatial_dims \in 1..MaxRank :
       \E coefs \in ParamLists({2, 3}, IF spatial_dims = 3 THEN MaxCoefs ELSE 3) :
       \E r \in {CreateShear(spatial_dims, coefs)} :
          /\ fn' = "create_shear"
          /\ args' = [spatial_dims |-> spatial_dims, params |-> coefs]
          /\ pc' = IF r.err = "" THEN "done" ELSE "error"
          /\ err' = r.err
          /\ result' = r.val
    /\ UNCHANGED <<warnings, local, rsDraws, globalDraws, freshDraws>>

CallCreateScale ==
    /\ pc = "idle"
    /\ UNCHANGED processVars
    /\ \E spatial_dims \in 1..MaxRank :
       \E scaling_factor \in ParamLists({2, 3}, spatial_dims + 1) :
          /\ fn' = "create_scale"
          /\ args' = [spatial_dims |-> spatial_dims, params |-> scaling_factor]
          /\ pc' = "done"
          /\ err' = ""
          /\ result' = CreateScale(spatial_dims, scaling_factor)
    /\ UNCHANGED <<warnings, local, rsDraws, globalDraws, freshDraws>>

CallCreateTranslate ==
    /\ pc = "idle"
    /\ UNCHANGED processVars
    /\ \E spatial_dims \in 1..MaxRank :
       \E shift \in ParamLists({2, 3}, spatial_dims + 1) :
          /\ fn' = "create_translate"
          /\ args' = [spatial_dims |-> spatial_dims, params |-> shift]
          /\ pc' = "done"
          /\ err' = ""
          /\ result' = CreateTranslate(spatial_dims, shift)
    /\ UNCHANGED <<warnings, local, rsDraws, globalDraws, freshDraws>>

(***************************************************************************)
(* resolves_modes (lines 1919-1967) and the four mode conversions it calls *)
(* (lines 1851-1916).  Modes are strings; an integer spline order or a     *)
(* compiled-resampler code n is written "#n".  A dict is a function from   *)
(* key names to values.                                                    *)
(***************************************************************************)
InterpolateModes ==
    {"nearest", "nearest-exact", "linear", "bilinear", "bicubic", "trilinear", "area"}

SplineModes == {"#0", "#1", "#2", "#3", "#4", "#5"}

GridSamplePadModes == {"zeros", "border", "reflection"}

NdimageModes ==
    {"reflect", "grid-mirror", "constant", "grid-constant", "nearest", "mirror",
     "grid-wrap", "wrap"}

\* lines 1851-1867: a spline order stays, a torch mode maps to its order.
ToNumpyInterp(m) ==
    IF m \in SplineModes THEN [err |-> "", val |-> m]
    ELSE IF m \in {"nearest", "nearest-exact", "area"} THEN [err |-> "", val |-> "#0"]
    ELSE IF m \in {"linear", "bilinear", "trilinear"} THEN [err |-> "", val |-> "#1"]
    ELSE IF m = "bicubic" THEN [err |-> "", val |-> "#3"]
    ELSE [err |-> "ValueError: unsupported interp_mode", val |-> m]

\* lines 1870-1882: a torch mode stays, spline orders 1 and 3 map to linear
\* and bicubic (order 0 depends on the installed torch and is not drawn).
ToTorchInterp(m) ==
    IF m \in InterpolateModes THEN [err |-> "", val |-> m]
    ELSE IF m = "#1" THEN [err |-> "", val |-> "linear"]
    ELSE IF m = "#3" THEN [err |-> "", val |-> "bicubic"]
    ELSE [err |-> "ValueError: unsupported interp_mode", val |-> m]

\* lines 1885-1897
ToNumpyPadding(m) ==
    IF m \in NdimageModes THEN [err |-> "", val |-> m]
    ELSE IF m = "zeros" THEN [err |-> "", val |-> "constant"]
    ELSE IF m = "border" THEN [err |-> "", val |-> "nearest"]
    ELSE IF m = "reflection" THEN [err |-> "", val |-> "reflect"]
    ELSE [err |-> "ValueError: unsupported padding_mode", val |-> m]

\* lines 1900-1916
ToTorchPadding(m) ==
    IF m \in GridSamplePadModes THEN [err |-> "", val |-> m]
    ELSE IF m \in {"constant", "grid-constant"} THEN [err |-> "", val |-> "zeros"]
    ELSE IF m = "nearest" THEN [err |-> "", val |-> "border"]
    ELSE IF m \in {"reflect", "wrap", "grid-wrap", "grid-mirror"}
         THEN [err |-> "", val |-> "reflection"]
    ELSE [err |-> "ValueError: unsupported padding_mode", val |-> m]

\* dict.pop(k, default): the value, and the dict without the key.
DictGet(d, k, default) == IF k \in DOMAIN d THEN d[k] ELSE default

DictPop(d, k) == [x \in DOMAIN d \ {k} |-> d[x]]

DictPut(d, k, v) == [x \in DOMAIN d \cup {k} |-> IF x = k THEN v ELSE d[x]]

EndsWithLinear(m) == m \in {"linear", "bilinear", "trilinear"}

\* lines 1938-1943: backend None is inferred from the interpolation mode.
InferBackend(interp_mode, backend) ==
    IF backend = "None"
    THEN (IF interp_mode \in SplineModes THEN "numpy" ELSE "torch")
    ELSE backend

\* lines 1950-1957: a linear torch mode follows torch_interpolate_spatial_nd.
LinearByRank(m, kw) ==
    IF ~EndsWithLinear(m) THEN m
    ELSE LET nd == DictGet(kw, "torch_interpolate_spatial_nd", 2)
         IN IF nd = 1 THEN "linear" ELSE IF nd = 3 THEN "trilinear" ELSE "bilinear"

\* lines 1960-1966: the codes of the compiled resampler; GridSampleMode has
\* no member for the other modes.
CompiledInterp(m) ==
    IF m = "bicubic" THEN [err |-> "", val |-> "#3"]
    ELSE IF EndsWithLinear(m) THEN [err |-> "", val |-> "#1"]
    ELSE IF m = "nearest" THEN [err |-> "", val |-> m]
    ELSE [err |-> "ValueError: not a valid GridSampleMode", val |-> m]

CompiledPadding(m) == IF m = "reflection" THEN "#1" ELSE m

\* One uncached evaluation of the body (lines 1937-1967): the three
\* immutable members of the returned tuple and the contents of the dict
\* _kwargs that is its fourth member.
ResolvesModes(a) ==
    LET backend == InferBackend(a.interp_mode, a.backend)
    IN IF backend = "numpy"
       THEN LET i == ToNumpyInterp(a.interp_mode)
                p == ToNumpyPadding(a.padding_mode)
            IN [err |-> IF i.err # "" THEN i.err ELSE p.err,
                backend |-> backend, interp_mode |-> i.val, padding_mode |-> p.val,
                kwargs |-> a.kwargs]
       ELSE LET i == ToTorchInterp(a.interp_mode)
                p == ToTorchPadding(a.padding_mode)
                m == LinearByRank(i.val, a.kwargs)
                kw1 == IF EndsWithLinear(i.val)
                       THEN DictPop(a.kwargs, "torch_interpolate_spatial_nd")
                       ELSE a.kwargs
                compiled == DictGet(kw1, "use_compiled", FALSE)
                kw2 == DictPop(kw1, "use_compiled")
                c == CompiledInterp(m)
            IN [err |-> IF i.err # "" THEN i.err
                        ELSE IF p.err # "" THEN p.err
                        ELSE IF compiled THEN c.err ELSE "",
                backend |-> backend,
                interp_mode |-> IF compiled THEN c.val ELSE m,
                padding_mode |-> IF compiled THEN CompiledPadding(p.val) ELSE p.val,
                kwargs |-> kw2]

\* The arguments the callers pass.
ModeArgs ==
    {[interp_mode |-> "bilinear", padding_mode |-> "zeros", backend |-> "torch",
      kwargs |-> EmptyDict],
     [interp_mode |-> "bilinear", padding_mode |-> "reflect", backend |-> "torch",
      kwargs |-> [k \in {"use_compiled", "torch_interpolate_spatial_nd"} |->
                     IF k = "use_compiled" THEN TRUE ELSE 3]],
     [interp_mode |-> "#3", padding_mode |-> "zeros", backend |-> "None",
      kwargs |-> EmptyDict],
     [interp_mode |-> "cubic", padding_mode |-> "zeros", backend |-> "torch",
      kwargs |-> EmptyDict]}

\* What the caller holds after a call returned the cached tuple e: its three
\* immutable members, the dict object e.ref, and kw, what that dict held then.
Received(a, e, kw) ==
    [pc |-> "ready", called |-> TRUE, key |-> a,
     backend |-> e.backend, interp_mode |-> e.interp_mode,
     padding_mode |-> e.padding_mode, ref |-> e.ref, seen |-> kw, err |-> ""]

\* lru_cache wrapper, first half: caller t calls resolves_modes(a).  A hit
\* returns the cached tuple itself; a miss goes on to evaluate the body.
MemoLookup(t) ==
    /\ callers[t].pc = "ready"
    /\ \E a \in ModeArgs :
        IF a \in DOMAIN cache
        THEN callers' = [callers EXCEPT ![t] = Received(a, cache[a], dicts[cache[a].ref])]
        ELSE callers' = [callers EXCEPT ![t] = [NoCall EXCEPT !.pc = "evaluating", !.key = a]]
    /\ UNCHANGED <<cache, dicts, flags, frames>>
    /\ UNCHANGED <<pc, fn, args, result, err, warnings, local, rsDraws, globalDraws, freshDraws>>

\* lru_cache wrapper, second half: the body has run for caller t; its tuple,
\* holding the new dict object _kwargs, is stored under the key (an entry
\* another caller stored meanwhile is replaced) and returned.  A body that
\* raised stores nothing.
MemoStore(t) ==
    /\ callers[t].pc = "evaluating"
    /\ Len(dicts) < MaxDicts
    /\ LET a == callers[t].key
           r == ResolvesModes(a)
           e == [backend |-> r.backend, interp_mode |-> r.interp_mode,
                 padding_mode |-> r.padding_mode, ref |-> Len(dicts) + 1]
       IN IF r.err # ""
          THEN /\ callers' = [callers EXCEPT ![t] = [NoCall EXCEPT !.called = TRUE, !.key = a, !.err = r.err]]
               /\ UNCHANGED <<cache, dicts>>
          ELSE /\ dicts' = Append(dicts, r.kwargs)
               /\ cache' = [k \in DOMAIN cache \cup {a} |-> IF k = a THEN e ELSE cache[k]]
               /\ callers' = [callers EXCEPT ![t] = Received(a, e, r.kwargs)]
    /\ UNCHANGED <<flags, frames>>
    /\ UNCHANGED <<pc, fn, args, result, err, warnings, local, rsDraws, globalDraws, freshDraws>>

\* A caller uses the dict of the tuple it received: the fourth member is the
\* dict object _kwargs itself (lines 1947, 1959 and 1967 return it, not a copy), so
\* setting or popping a key changes the object the cached tuple refers to.
CallerUpdatesKwargs(t) ==
    /\ callers[t].pc = "ready"
    /\ callers[t].ref # 0
    /\ \E d \in {DictPut(dicts[callers[t].ref], "use_compiled", TRUE),
                 DictPop(dicts[callers[t].ref], "use_compiled")} :
        /\ d # dicts[callers[t].ref]
        /\ dicts' = [dicts EXCEPT ![callers[t].ref] = d]
    /\ UNCHANGED <<cache, callers, flags, frames>>
    /\ UNCHANGED <<pc, fn, args, result, err, warnings, local, rsDraws, globalDraws, freshDraws>>


(***************************************************************************)
(* allow_missing_keys_mode (lines 1326-1370).  A MapTransform object is    *)
(* its position in flags; in the transform(s) handed to the context        *)
(* manager, 0 stands for a transform that is not a MapTransform.           *)
(***************************************************************************)
NotMapTransform == 0

\* A MapTransform is constructed with allow_missing_keys = b.
NewMapTransform ==
    /\ Len(flags) < MaxTransforms
    /\ \E b \in BOOLEAN : flags' = Append(flags, b)
    /\ UNCHANGED <<cache, dicts, callers, frames>>
    /\ UNCHANGED <<pc, fn, args, result, err, warnings, local, rsDraws, globalDraws, freshDraws>>

\* lines 1344-1353: the MapTransforms of the flattened Compose, in order.
ContainedMapTransforms(given) == SelectSeq(given, LAMBDA t : t # NotMapTransform)

\* The states read after they were set: every one True.
OrigStatesAfterSetting(fl, ts) == [i \in 1..Len(ts) |-> TRUE]

\* line 1360
OrigStates(fl, ts) == [i \in 1..Len(ts) |-> fl[ts[i]]]

\* lines 1364-1365
SetAllTrue(fl, ts) ==
    [t \in DOMAIN fl |-> IF \E i \in 1..Len(ts) : ts[i] = t THEN TRUE ELSE fl[t]]

\* lines 1369-1370: the assignments of the zip, in order.
RECURSIVE Revert(_, _, _)
Revert(fl, ts, os) ==
    IF ts = <<>> THEN fl
    ELSE Revert([fl EXCEPT ![Head(ts)] = Head(os)], Tail(ts), Tail(os))

\* The transform(s) a caller can hand over: one transform, or a Compose or
\* sequence of up to two, over the objects constructed so far.
GivenTransforms ==
    UNION {[1..n -> 0..Len(flags)] : n \in 0..2}

TypeErrorNoMapTransform ==
    "TypeError: allow_missing_keys_mode expects either MapTransform(s) or Compose(s) containing MapTransform(s)"

BodyError == "exception raised in the with-body"

\* Entering the context (lines 1344-1366, up to the yield).  entry is what
\* every flag was when the context was entered; the code does not keep it.
EnterMode ==
    /\ Len(frames) < MaxFrames
    /\ \E given \in GivenTransforms :
        LET transforms == ContainedMapTransforms(given)
        IN /\ fn' = "allow_missing_keys_mode"
           /\ args' = <<given>>
           /\ IF Len(transforms) = 0
              THEN /\ err' = TypeErrorNoMapTransform
                   /\ UNCHANGED <<flags, frames>>
              ELSE /\ err' = ""
                   /\ frames' = Append(frames, [transforms |-> transforms,
                                                orig_states |-> OrigStates(flags, transforms),
                                                entry |-> flags])
                   /\ flags' = SetAllTrue(flags, transforms)
    /\ UNCHANGED <<cache, dicts, callers>>
    /\ UNCHANGED <<pc, result, warnings, local, rsDraws, globalDraws, freshDraws>>

\* Leaving the innermost context (lines 1367-1370): the with-body returned
\* or raised, the finally block reverts, a raised exception goes on.
ExitMode ==
    /\ Len(frames) > 0
    /\ \E raised \in BOOLEAN :
        LET top == frames[Len(frames)]
        IN /\ flags' = Revert(flags, top.transforms, top.orig_states)
           /\ frames' = SubSeq(frames, 1, Len(frames) - 1)
           /\ err' = IF raised THEN BodyError ELSE ""
    /\ UNCHANGED <<cache, dicts, callers>>
    /\ UNCHANGED <<pc, fn, args, result, warnings, local, rsDraws, globalDraws, freshDraws>>

(***************************************************************************)
(* map_spatial_axes (lines 1291-1323).                                     *)
(***************************************************************************)
\* lines 1319-1322: one spatial axis a to the real axis.
MapAxis(img_ndim, a, channel_first) ==
    IF channel_first
    THEN (IF a < 0 THEN a % img_ndim ELSE a + 1)
    ELSE (IF a < 0 THEN (a - 1) % (img_ndim - 1) ELSE a)

\* lines 1315-1323
MapSpatialAxes(img_ndim, spatial_axes, channel_first) ==
    IF spatial_axes.none
    THEN (IF channel_first THEN [i \in 1..(img_ndim - 1) |-> i]
                           ELSE [i \in 1..(img_ndim - 1) |-> i - 1])
    ELSE [i \in 1..Len(spatial_axes.val) |->
             MapAxis(img_ndim, spatial_axes.val[i], channel_first)]

\* The spatial axes of an image with img_ndim - 1 spatial dims, counted from
\* the first (0, 1, ...) or from the last (-1, -2, ...).
SpatialAxes(img_ndim) == (-(img_ndim - 1))..(img_ndim - 2)

CallMapSpatialAxes ==
    /\ pc = "idle"
    /\ UNCHANGED processVars
    /\ \E img_ndim \in 2..MaxNdim, channel_first \in BOOLEAN :
       \E spatial_axes \in {[none |-> TRUE, val |-> <<>>]} \cup
                           {[none |-> FALSE, val |-> v] :
                               v \in UNION {[1..n -> SpatialAxes(img_ndim)] : n \in 1..2}} :
        /\ fn' = "map_spatial_axes"
        /\ args' = [img_ndim |-> img_ndim, spatial_axes |-> spatial_axes,
                    channel_first |-> channel_first]
        /\ result' = MapSpatialAxes(img_ndim, spatial_axes, channel_first)
        /\ pc' = "done"
    /\ UNCHANGED <<err, warnings, local, rsDraws, globalDraws, freshDraws>>

NextCrop == CallCorrectCropCenters

NextPosNeg ==
    \/ CallPosNeg
    \/ PosNegIter
    \/ PosNegReturn

NextClasses ==
    \/ CallClasses
    \/ ClassesIter
    \/ ClassesReturn

NextWeighted == CallWeighted

NextBBox == CallBoundingBox

NextMapBinary == CallMapBinary

NextMapClasses == CallMapClasses

NextLazy ==
    \/ CallCheckNonLazy
    \/ NextMapBinary
    \/ NextMapClasses
    \/ NextWeighted
    \/ NextBBox

NextSampling ==
    \/ NextPosNeg
    \/ NextClasses
    \/ NextWeighted

NextModes ==
    \E t \in 1..MaxCallers : MemoLookup(t) \/ MemoStore(t) \/ CallerUpdatesKwargs(t)

NextMissingKeys == NewMapTransform \/ EnterMode \/ ExitMode

NextMapClassesSampled == CallMapClassesSampled

NextGrid == CallCreateControlGrid

NextInterp == CallConvertAppliedInterpMode

NextAxes == CallMapSpatialAxes

NextAffine ==
    \/ CallCreateRotate
    \/ CallCreateShear
    \/ CallCreateScale
    \/ CallCreateTranslate

Next ==
    \/ NextCrop
    \/ NextSampling
    \/ CallCheckNonLazy
    \/ NextMapBinary
    \/ NextMapClasses
    \/ NextBBox
    \/ NextAffine
    \/ NextModes
    \/ NextMissingKeys
    \/ NextAxes
    \/ NextInterp
    \/ NextGrid
    \/ NextMapClassesSampled

Spec == Init /\ [][Next]_vars
SpecCrop == Init /\ [][NextCrop]_vars
SpecPosNeg == Init /\ [][NextPosNeg]_vars
SpecClasses == Init /\ [][NextClasses]_vars
SpecWeighted == Init /\ [][NextWeighted]_vars
SpecSampling == Init /\ [][NextSampling]_vars
SpecBBox == Init /\ [][NextBBox]_vars
SpecMapBinary == Init /\ [][NextMapBinary]_vars
SpecMapClasses == Init /\ [][NextMapClasses]_vars
SpecLazy == Init /\ [][NextLazy]_vars
SpecAffine == Init /\ [][NextAffine]_vars
SpecMapClassesSampled == Init /\ [][NextMapClassesSampled]_vars
SpecGrid == Init /\ [][NextGrid]_vars
SpecInterp == Init /\ [][NextInterp]_vars
SpecAxes == Init /\ [][NextAxes]_vars
SpecModes == Init /\ [][NextModes]_vars
SpecMissingKeys == Init /\ [][NextMissingKeys]_vars

(***************************************************************************)
(* Claims about correct_crop_centers.                                      *)
(***************************************************************************)
CropDone == pc = "done" /\ fn = "correct_crop_centers"

\* the patch [c - floor(p/2), c - floor(p/2) + p) of axis i lies in [0, l]
PatchFits(c, p, l) == c - (p \div 2) >= 0 /\ c - (p \div 2) + p <= l

\* C1: for every center and every label shape with patch[i] <= label[i] on
\* every axis, each returned center c satisfies 0 <= c <= label[i] - 1 and
\* the patch centered at c lies inside [0, label[i]].
C1_CenterInsideVolume ==
    (CropDone /\ \A i \in Axes : args.spatial_size[i] <= args.label_spatial_shape[i])
    => \A i \in Axes :
          /\ 0 <= result[i]
          /\ result[i] <= args.label_spatial_shape[i] - 1
          /\ PatchFits(result[i], args.spatial_size[i], args.label_spatial_shape[i])

\* C2: correct_crop_centers is idempotent: applied to its own output with the
\* same spatial_size, label shape and allow_smaller it returns that output.
C2_Idempotent ==
    CropDone =>
        CorrectCropCenters(result, args.spatial_size, args.label_spatial_shape,
                           args.allow_smaller) = [err |-> "", val |-> result]

\* a call that moved the center on both axes, downwards on the first
C2_Witness ==
    /\ CropDone
    /\ result[1] < args.centers[1]
    /\ result[2] # args.centers[2]

\* C3: whenever some axis has label_dim < patch_dim and allow_smaller is
\* false, the call ends in an error and returns no centers.
C3_SmallerImageFails ==
    (/\ fn = "correct_crop_centers"
     /\ ~args.allow_smaller
     /\ \E i \in Axes : args.label_spatial_shape[i] < args.spatial_size[i])
    => (pc = "error" /\ err = "ValueError: ROI larger than image" /\ result = <<>>)

\* an error raised with exactly one axis too small
C3_Witness ==
    /\ fn = "correct_crop_centers"
    /\ pc = "error"
    /\ args.label_spatial_shape[1] < args.spatial_size[1]
    /\ args.label_spatial_shape[2] > args.spatial_size[2]

\* C4: with allow_smaller true, an axis with label_dim <= patch_dim returns
\* exactly floor(label_dim / 2), and an axis with label_dim > patch_dim is
\* clamped into [floor(p/2), label_dim - ceil(p/2)] with its own patch size.
C4_SmallerAxisCentered ==
    (CropDone /\ args.allow_smaller)
    => \A i \in Axes :
          LET l == args.label_spatial_shape[i]
              p == args.spatial_size[i]
          IN  /\ l <= p => result[i] = l \div 2
              /\ l > p => result[i] = Min(Max(args.centers[i], p \div 2), l - ((p + 1) \div 2))

(***************************************************************************)
(* Claims about generate_pos_neg_label_crop_centers.                       *)
(***************************************************************************)
PosNeg == fn = "generate_pos_neg_label_crop_centers"
NoDraws == rsDraws = 0 /\ globalDraws = 0 /\ freshDraws = 0

\* C5: with fg_indices and bg_indices both empty the call fails with an
\* error before any random number is drawn and returns no centers.
C5_NoLocationFailsBeforeDraw ==
    (PosNeg /\ Len(args.fg_indices) = 0 /\ Len(args.bg_indices) = 0)
    => /\ pc = "error"
       /\ err = "ValueError: No sampling location available."
       /\ result = <<>>
       /\ NoDraws

\* the failing call asked for samples
C5_Witness ==
    /\ PosNeg
    /\ pc = "error"
    /\ Len(args.fg_indices) = 0
    /\ Len(args.bg_indices) = 0
    /\ args.num_samples > 0

ExactlyOneEmpty ==
    /\ PosNeg
    /\ (Len(args.fg_indices) = 0) # (Len(args.bg_indices) = 0)

NonEmptySet == IF Len(args.fg_indices) = 0 THEN "bg" ELSE "fg"

\* C6: when exactly one of fg_indices / bg_indices is empty, pos_ratio is
\* forced to 0 (no foreground) or 1 (no background) whatever was passed, a
\* warning is issued, every draw indexes the non-empty set and randint is
\* never called with 0; a returning call made num_samples such draws.
C6_OneEmptySetForcesRatio ==
    ExactlyOneEmpty
    => /\ local.pos_ratio = (IF Len(args.fg_indices) = 0 THEN 0 ELSE RandScale)
       /\ warnings = <<"unable to generate class balanced samples">>
       /\ \A n \in DOMAIN local.picks : local.picks[n] = NonEmptySet
       /\ err # "ValueError: randint high <= 0"
       /\ pc = "done" => (Len(local.picks) = args.num_samples /\ Len(result) = args.num_samples)

\* a call that returned more than one center although the caller asked for
\* foreground only and there is none
C6_Witness ==
    /\ ExactlyOneEmpty
    /\ pc = "done"
    /\ Len(args.fg_indices) = 0
    /\ args.pos_ratio = RandScale
    /\ Len(result) > 1

\* C7: a call with num_samples < 1 fails with an error instead of returning.
C7_TooFewSamplesFails ==
    (PosNeg /\ args.num_samples < 1) => pc # "done"

(***************************************************************************)
(* Claims about generate_label_classes_crop_centers.                       *)
(***************************************************************************)
Classes == fn = "generate_label_classes_crop_centers"

\* the call got past its argument checks and drew the classes
ClassesDrawn ==
    /\ Classes
    /\ \/ pc \in {"classes_loop", "done"}
       \/ pc = "error" /\ err \in {"ValueError: randint high <= 0",
                                   "ValueError: ROI larger than image"}

InvalidClassesArgs ==
    \/ args.num_samples < 1
    \/ ~args.ratios.none /\ Len(args.ratios.val) # Len(args.indices)
    \/ ~args.ratios.none /\ \E i \in DOMAIN args.ratios.val : args.ratios.val[i] < 0

\* C8: with num_samples < 1, a ratio vector whose length differs from the
\* number of classes, or a negative ratio, the call fails with an error
\* before any random number is drawn and returns no centers.
C8_InvalidArgsFailBeforeDraw ==
    (Classes /\ InvalidClassesArgs)
    => /\ pc = "error"
       /\ err \in {"ValueError: num_samples must be greater than 0",
                   "ValueError: ratios must match the number of classes",
                   "ValueError: ratios should not contain negative number"}
       /\ result = <<>>
       /\ NoDraws

\* a negative ratio alone made the call fail
C8_Witness ==
    /\ Classes
    /\ pc = "error"
    /\ err = "ValueError: ratios should not contain negative number"
    /\ args.num_samples >= 1
    /\ Len(args.ratios.val) = Len(args.indices)

\* C9: every class with an empty index set has ratio 0 when the classes are
\* drawn, and every drawn class has a non-empty index set and a positive
\* ratio: randint is never called for an empty class.
C9_EmptyClassNeverDrawn ==
    ClassesDrawn
    => /\ \A i \in DOMAIN args.indices : Len(args.indices[i]) = 0 => local.ratios_[i] = 0
       /\ \A n \in DOMAIN local.classes :
             /\ Len(args.indices[local.classes[n]]) > 0
             /\ local.ratios_[local.classes[n]] > 0
       /\ err # "ValueError: randint high <= 0"

\* a returning call with an empty class whose ratio the caller set positive
C9_Witness ==
    /\ Classes
    /\ pc = "done"
    /\ Len(result) > 1
    /\ \E i \in DOMAIN args.indices :
          /\ Len(args.indices[i]) = 0
          /\ ~args.ratios.none
          /\ args.ratios.val[i] > 0

(***************************************************************************)
(* Claims about the random states of the three sampling functions.         *)
(***************************************************************************)
Weighted == fn = "weighted_patch_samples"
RandStateArg == IF Weighted THEN args.r_state ELSE args.rand_state

WeightedDone == Weighted /\ pc = "done"

\* the patch size the call resolves: fall_back_tuple(spatial_size, w.shape)
WeightedPatch == FallBackTuple(args.spatial_size, args.img_size)

\* the valid window of one axis: floor(p/2) <= c < m - p + floor(p/2) where
\* the patch is shorter than the axis, and c = floor(m/2) elsewhere
InWindow(c, p, m) ==
    IF m > p THEN (p \div 2) <= c /\ c < m - p + (p \div 2)
    ELSE c = m \div 2

\* the number of positions of the window
WindowPositions ==
    Prod([i \in Axes |-> IF args.img_size[i] > WeightedPatch[i]
                          THEN args.img_size[i] - WeightedPatch[i] ELSE 1], 1)

\* the weight, in the map passed to the call, of a returned coordinate
WeightAt(c) == args.w[c[1] + 1][c[2] + 1]

\* the coordinates of the window, and their weights
WindowCoords ==
    {c \in [Axes -> 0..MaxWDim] :
        \A i \in Axes : c[i] < args.img_size[i]
                         /\ InWindow(c[i], WeightedPatch[i], args.img_size[i])}

\* C11: every returned coordinate lies in the valid window of its axis, and
\* the patch around it fits inside the map on the axes longer than the
\* patch, for every weight map and every draw of either branch.
C11_CoordinatesInWindow ==
    WeightedDone
    => \A n \in DOMAIN result : \A i \in Axes :
          /\ InWindow(result[n][i], WeightedPatch[i], args.img_size[i])
          /\ args.img_size[i] > WeightedPatch[i]
                => PatchFits(result[n][i], WeightedPatch[i], args.img_size[i])

\* a call that returned the last position of a window with two positions on
\* both axes, located through the cumulative weights
C11_Witness ==
    /\ WeightedDone
    /\ ~local.uniform
    /\ \A i \in Axes : args.img_size[i] = WeightedPatch[i] + 2
    /\ \E n \in DOMAIN result :
          \A i \in Axes : result[n][i] = (WeightedPatch[i] \div 2) + 1

ZeroTotal ==
    \/ \A c \in WindowCoords : WeightAt(c) = 0
    \/ \E x \in WeightVals : x < 0 /\ \A c \in WindowCoords : WeightAt(c) = x

\* C13: with a zero cumulative total the call does not fail: it returns
\* n_samples coordinates, each one the window position of an integer drawn
\* from [0, number of window positions), every one of which can be drawn.
C13_ZeroTotalUniform ==
    (Weighted /\ ZeroTotal)
    => /\ pc = "done"
       /\ err = ""
       /\ local.uniform
       /\ local.support = 0..(WindowPositions - 1)
       /\ Len(result) = args.n_samples
       /\ \A n \in DOMAIN result :
             /\ local.idx[n] \in 0..(WindowPositions - 1)
             /\ result[n] \in WindowCoords

\* a call on all-equal negative weights that returned the last position of
\* a window with two positions on both axes
C13_Witness ==
    /\ WeightedDone
    /\ ZeroTotal
    /\ \E c \in WindowCoords : WeightAt(c) < 0
    /\ WindowPositions = 4
    /\ \E n \in DOMAIN result : local.idx[n] = WindowPositions - 1

\* C14: a call that takes the uniform fallback because of a degenerate
\* cumulative total issues a warning besides returning its coordinates.
C14_FallbackWarns ==
    (WeightedDone /\ local.uniform) => Len(warnings) > 0

(***************************************************************************)
(* Claims about generate_spatial_bounding_box.                             *)
(***************************************************************************)
BBox == fn = "generate_spatial_bounding_box"
BBoxDone == BBox /\ pc = "done"
BoxAxes == DOMAIN args.spatial_size

\* the voxels selected as foreground: positive in one of the channels the
\* call selects
Foreground ==
    {x \in Voxels(args.spatial_size) :
        \E c \in DOMAIN args.img :
            /\ args.channel_indices.none \/ c = args.channel_indices.val + 1
            /\ args.img[c][x] > 0}

\* the smallest and the largest index along axis i of a foreground voxel
FirstIndex(fg, i) == CHOOSE a \in {x[i] : x \in fg} : \A x \in fg : a <= x[i]
LastIndex(fg, i) == CHOOSE a \in {x[i] : x \in fg} : \A x \in fg : a >= x[i]

ZeroBox == <<[i \in BoxAxes |-> 0], [i \in BoxAxes |-> 0]>>

\* C15: on a non-empty foreground, slot i of the result describes spatial
\* axis i for ranks 1 to 3: with margin 0 start[i] is the smallest and
\* end[i] - 1 the largest foreground index along axis i, and with margin m
\* they are that first index minus m[i] and that last index plus m[i] plus
\* one, before clipping.
C15_MinimalBox ==
    BBoxDone
    => \A fg \in {Foreground} : fg # {}
    => \A i \in BoxAxes :
       \A first \in {FirstIndex(fg, i)}, last \in {LastIndex(fg, i)} :
          /\ args.margin[i] = 0
               => result[1][i] = first /\ result[2][i] - 1 = last
          /\ ~args.allow_smaller
               => /\ result[1][i] = first - args.margin[i]
                  /\ result[2][i] = last + args.margin[i] + 1
          /\ args.allow_smaller
               => /\ result[1][i] = Max(first - args.margin[i], 0)
                  /\ result[2][i] = Min(last + args.margin[i] + 1, args.spatial_size[i])

\* the box of a rank-3 volume whose extent differs on each axis
C15_Witness ==
    /\ BBoxDone
    /\ Len(args.spatial_size) = 3
    /\ \A i \in BoxAxes : args.margin[i] = 0
    /\ result = <<(<<1, 0, 0>>), (<<2, 1, 2>>)>>

\* C16: without a negative margin the call returns the all-zero pair if and
\* only if no voxel is selected as foreground, for either allow_smaller
\* value; on a non-empty foreground end[i] > start[i] on every axis.
C16_SentinelIffEmpty ==
    (BBox /\ \A i \in BoxAxes : args.margin[i] >= 0)
    => /\ pc = "done"
       /\ err = ""
       /\ \A fg \in {Foreground} :
             /\ result = ZeroBox <=> fg = {}
             /\ fg # {} => \A i \in BoxAxes : result[2][i] > result[1][i]

\* the sentinel returned for a volume of non-positive values with a positive
\* margin and allow_smaller false
C16_Witness ==
    /\ BBoxDone
    /\ Foreground = {}
    /\ \E x \in Voxels(args.spatial_size) : args.img[1][x] < 0
    /\ \E i \in BoxAxes : args.margin[i] > 0
    /\ ~args.allow_smaller
    /\ result = ZeroBox

\* C17: on a non-empty foreground with a non-negative margin, allow_smaller
\* true gives 0 <= start[i] < end[i] <= spatial_size[i] on every axis, and
\* allow_smaller false gives the unclipped values.
C17_ClippedIffAllowSmaller ==
    BBoxDone
    => \A fg \in {Foreground} : fg # {}
    => \A i \in BoxAxes :
          IF args.allow_smaller
          THEN /\ 0 <= result[1][i]
               /\ result[1][i] < result[2][i]
               /\ result[2][i] <= args.spatial_size[i]
          ELSE /\ result[1][i] = FirstIndex(fg, i) - args.margin[i]
               /\ result[2][i] = LastIndex(fg, i) + args.margin[i] + 1

\* an unclipped box that starts below 0 and ends past the volume on one axis
C17_Witness ==
    /\ BBoxDone
    /\ Foreground # {}
    /\ ~args.allow_smaller
    /\ \E i \in BoxAxes : result[1][i] < 0 /\ result[2][i] > args.spatial_size[i]

\* C18: a negative margin on any axis makes the call fail with an error and
\* return no box, for every volume, with or without foreground.
C18_NegativeMarginFails ==
    (BBox /\ \E i \in BoxAxes : args.margin[i] < 0)
    => /\ pc = "error"
       /\ err = "ValueError: margin value should not be negative number"
       /\ result = <<>>

\* the error on a volume without foreground, with a negative margin on one
\* axis and a positive one on another
C18_Witness ==
    /\ BBox
    /\ pc = "error"
    /\ Foreground = {}
    /\ \E i, j \in BoxAxes : args.margin[i] < 0 /\ args.margin[j] > 0

(***************************************************************************)
(* Claims about map_binary_to_indices and map_classes_to_indices.          *)
(***************************************************************************)
MapBinary == fn = "map_binary_to_indices"
MapClasses == fn = "map_classes_to_indices"

Ascending(seq) == \A i, j \in DOMAIN seq : i < j => seq[i] < seq[j]
Elems(seq) == {seq[i] : i \in DOMAIN seq}

\* the row-major flat position of a voxel of the label passed to the call
FlatPosition(x) == x[1] * args.shape[2] + x[2]
AllPositions == {FlatPosition(x) : x \in Voxels(args.shape)}

\* the positions where some image channel exceeds image_threshold
AboveThreshold ==
    {FlatPosition(x) : x \in {y \in Voxels(args.shape) :
        \E c \in DOMAIN args.image.val : args.image.val[c][y] > args.image_threshold}}

\* the positions where a label channel, channel 0 of a multi-channel label
\* left out, is non-zero
NonZeroLabel ==
    {FlatPosition(x) : x \in {y \in Voxels(args.shape) :
        \E c \in DOMAIN args.label :
            (Len(args.label) > 1 => c > 1) /\ args.label[c][y] # 0}}

\* C19: the two returned index arrays are ascending and disjoint; foreground
\* is where a label channel (channel 0 dropped from a multi-channel label) is
\* non-zero, whatever the image; background is the complement of foreground
\* without an image, and with an image the positions where some image
\* channel exceeds image_threshold and that are not foreground.
C19_ForegroundBackground ==
    MapBinary
    => /\ pc = "done"
       /\ Ascending(result[1]) /\ Ascending(result[2])
       /\ Elems(result[1]) \cap Elems(result[2]) = {}
       /\ Elems(result[1]) = NonZeroLabel
       /\ args.image.none
            => /\ Elems(result[2]) = AllPositions \ NonZeroLabel
               /\ Elems(result[1]) \cup Elems(result[2]) = AllPositions
       /\ ~args.image.none
            => Elems(result[2]) = AboveThreshold \ NonZeroLabel

\* a call with a three-channel label and an image where a foreground
\* position lies below the threshold, channel 0 marks a position that is not
\* foreground, and the background array holds two positions
C19_Witness ==
    /\ MapBinary
    /\ pc = "done"
    /\ Len(args.label) = 3
    /\ ~args.image.none
    /\ Elems(result[1]) \ AboveThreshold # {}
    /\ \E x \in Voxels(args.shape) :
          args.label[1][x] # 0 /\ FlatPosition(x) \notin Elems(result[1])
    /\ Len(result[2]) = 2

\* the positions of the single-channel label that hold class c, inside the
\* image mask when an image is given
ClassPositions(c) ==
    {FlatPosition(x) : x \in {y \in Voxels(args.shape) : args.label[1][y] = c}}
        \cap (IF args.image.none THEN AllPositions ELSE AboveThreshold)

\* C20: for a single-channel label with num_classes = K the call returns K
\* ascending, pairwise disjoint index arrays, array c holding exactly the
\* row-major positions whose label is c (inside the image mask when an image
\* is given), so that a position whose label is outside 0..K-1 is in none;
\* for a multi-channel label it returns one array per channel, channel 0
\* included, whatever num_classes is.
C20_ClassIndexSets ==
    /\ (MapClasses /\ Len(args.label) = 1 /\ ~args.num_classes.none)
         => /\ pc = "done"
            /\ Len(result) = args.num_classes.val
            /\ \A c \in 0..(args.num_classes.val - 1) :
                  /\ Ascending(result[c + 1])
                  /\ Elems(result[c + 1]) = ClassPositions(c)
            /\ \A c, d \in DOMAIN result :
                  c # d => Elems(result[c]) \cap Elems(result[d]) = {}
            /\ \A x \in Voxels(args.shape) :
                  args.label[1][x] \notin 0..(args.num_classes.val - 1)
                    => \A c \in DOMAIN result : FlatPosition(x) \notin Elems(result[c])
    /\ (MapClasses /\ Len(args.label) > 1)
         => /\ pc = "done"
            /\ Len(result) = Len(args.label)

\* the label [[0, 1], [1, 0]] with num_classes = 2 and no image
C20_Witness ==
    /\ MapClasses
    /\ pc = "done"
    /\ Len(args.label) = 1
    /\ args.image.none
    /\ result = <<(<<0, 3>>), (<<1, 2>>)>>

(***************************************************************************)
(* Claims about check_non_lazy_pending_ops.                                *)
(***************************************************************************)
LazyCheck == fn = "check_non_lazy_pending_ops"
LazyCallers ==
    fn \in {"map_binary_to_indices", "map_classes_to_indices",
            "weighted_patch_samples", "generate_spatial_bounding_box"}

\* the number of inputs of the call that carry pending operations
PendingInputs ==
    (IF args.pending THEN 1 ELSE 0)
    + (IF (MapBinary \/ MapClasses) /\ args.image_pending THEN 1 ELSE 0)

\* C21: a direct check of an input with pending operations raises exactly
\* when raise_error is true and otherwise warns and returns; without pending
\* operations it neither warns nor raises.  The four callers warn once per
\* pending input, never fail because of it, and go on to their result.
C21_PendingWarnsOrRaises ==
    /\ LazyCheck
         => /\ pc = "error" <=> (args.pending /\ args.raise_error)
            /\ pc = "done" <=> ~(args.pending /\ args.raise_error)
            /\ (args.pending /\ ~args.raise_error) <=> warnings = <<PendingMessage>>
            /\ (~args.pending \/ args.raise_error) <=> warnings = <<>>
    /\ LazyCallers
         => /\ Len(warnings) = PendingInputs
            /\ \A i \in DOMAIN warnings : warnings[i] = PendingMessage
            /\ \/ pc = "done"
               \/ pc = "error" /\ err \in {"ValueError: margin value should not be negative number",
                                          "ValueError: must provide num_classes"}

\* map_binary_to_indices returned its index arrays for a label and an image
\* that both carry pending operations, after two warnings
C21_Witness ==
    /\ MapBinary
    /\ pc = "done"
    /\ args.pending
    /\ args.image_pending
    /\ warnings = <<PendingMessage, PendingMessage>>
    /\ Len(result[1]) + Len(result[2]) > 0

(***************************************************************************)
(* Claims about the affine matrices.                                       *)
(***************************************************************************)
AffineDone ==
    /\ fn \in {"create_rotate", "create_shear", "create_scale", "create_translate"}
    /\ pc = "done"

\* C22: every matrix returned by create_rotate, create_shear, create_scale
\* and create_translate for rank r is square of size r + 1 and its last row
\* is [0, ..., 0, 1], for every number of supplied parameters.
C22_HomogeneousLastRow ==
    AffineDone
    => /\ Len(result) = args.spatial_dims + 1
       /\ \A i \in DOMAIN result : Len(result[i]) = args.spatial_dims + 1
       /\ result[args.spatial_dims + 1] =
             [j \in 1..(args.spatial_dims + 1) |-> IF j = args.spatial_dims + 1 THEN 1 ELSE 0]

\* create_translate returned a matrix for more shifts than the rank reads
C22_Witness ==
    /\ AffineDone
    /\ fn = "create_translate"
    /\ args.spatial_dims = 3
    /\ Len(args.params) = 4
    /\ result[1][4] = 2
    /\ result[3][4] = 3

(***************************************************************************)
(* Claims about resolves_modes.                                            *)
(***************************************************************************)
\* The tuple caller t received equals the uncached evaluation of its
\* arguments, dict contents included.
ReceivedAsUncached(t) ==
    LET c == callers[t]
        r == ResolvesModes(c.key)
    IN /\ c.backend = r.backend
       /\ c.interp_mode = r.interp_mode
       /\ c.padding_mode = r.padding_mode
       /\ c.seen = r.kwargs

\* C23: after any sequence of calls by any number of concurrent callers,
\* and whatever the callers did with the tuples they received earlier, a
\* call of resolves_modes with arguments A returns a tuple equal to the one
\* an uncached evaluation of A produces (the extra-options dict included).
C23_ReturnsUncachedValue ==
    \A t \in 1..MaxCallers :
        (callers[t].called /\ callers[t].pc = "ready" /\ callers[t].err = "")
            => ReceivedAsUncached(t)

(***************************************************************************)
(* Claims about allow_missing_keys_mode.                                   *)
(***************************************************************************)
\* The step leaves the innermost context.
LeavesContext == Len(frames') < Len(frames)

\* The step is a call that ended in the TypeError.
RaisesTypeError == err' = TypeErrorNoMapTransform /\ err # TypeErrorNoMapTransform

\* C24: every MapTransform contained in the transform(s) of an active
\* context has allow_missing_keys = True; when the innermost context exits,
\* normally or through an exception of the body, each of its transforms has
\* again the value it had when that context was entered (nested contexts on
\* the same transform included); a call whose transform(s) contain no
\* MapTransform raises TypeError and changes no flag, and only such a call
\* raises it.
C24_SetThenRestored ==
    [][/\ \A f \in 1..Len(frames') : \A i \in 1..Len(frames'[f].transforms) :
              flags'[frames'[f].transforms[i]] = TRUE
       /\ LeavesContext =>
              LET top == frames[Len(frames)]
              IN \A i \in 1..Len(top.transforms) :
                     flags'[top.transforms[i]] = top.entry[top.transforms[i]]
       /\ RaisesTypeError =>
              /\ flags' = flags
              /\ frames' = frames
              /\ \A i \in 1..Len(args'[1]) : args'[1][i] = NotMapTransform
       /\ Len(frames') > Len(frames)
              => \E i \in 1..Len(args'[1]) : args'[1][i] # NotMapTransform
      ]_vars

\* The inner of two nested contexts on the same transform, constructed with
\* allow_missing_keys = False, was left through an exception while the
\* outer one is still active.
C24_Witness ==
    /\ err = BodyError
    /\ Len(frames) = 1
    /\ frames[1].entry[frames[1].transforms[1]] = FALSE
    /\ flags[frames[1].transforms[1]] = TRUE
    /\ Len(flags) = 2 /\ flags[2] = TRUE

(***************************************************************************)
(* Claims about map_spatial_axes.                                          *)
(***************************************************************************)
AxesDone == pc = "done" /\ fn = "map_spatial_axes"

\* The real axis an index denotes in an array of ndim axes.
RealAxis(x, ndim) == IF x < 0 THEN x + ndim ELSE x

\* The real axis of spatial axis a: the a-th spatial dim, from the first
\* spatial dim for a >= 0 and from the last one for a < 0.
SpatialDimAxis(img_ndim, a, channel_first) ==
    LET first == IF channel_first THEN 1 ELSE 0
        nspatial == img_ndim - 1
    IN first + (IF a < 0 THEN nspatial + a ELSE a)

\* C25: map_spatial_axes maps each spatial axis to the real array axis of
\* the same spatial dimension (None to all spatial axes in order; with the
\* channel last a negative axis a to real axis (img_ndim - 1) + a, with the
\* channel first [0, -1] to the second and the last axis), and for in-range
\* spatial axes the result never denotes the channel axis.
C25_SameSpatialDimension ==
    AxesDone =>
        LET n == args.img_ndim
            channel == IF args.channel_first THEN 0 ELSE n - 1
        IN /\ \A i \in 1..Len(result) : RealAxis(result[i], n) # channel
           /\ IF args.spatial_axes.none
              THEN result = [i \in 1..(n - 1) |->
                                SpatialDimAxis(n, i - 1, args.channel_first)]
              ELSE /\ Len(result) = Len(args.spatial_axes.val)
                   /\ \A i \in 1..Len(result) :
                          RealAxis(result[i], n) =
                              SpatialDimAxis(n, args.spatial_axes.val[i], args.channel_first)

(***************************************************************************)
(* Claim about the valid range of correct_crop_centers.                    *)
(***************************************************************************)
\* C26: for every axis with label_dim >= patch >= 1 the valid range that
\* correct_crop_centers computes is [floor(patch/2), label_dim + 1 -
\* ceil(patch/2)): the upper bound equals the mathematical value, also for
\* label dimensions of 65535 and above (no wrap-around, no truncation).
C26_UpperBoundExact ==
    CropDone =>
        \A i \in Axes :
            args.spatial_size[i] <= args.label_spatial_shape[i] =>
                /\ local.valid_start[i] = args.spatial_size[i] \div 2
                /\ local.valid_end[i] =
                       args.label_spatial_shape[i] + 1 - ((args.spatial_size[i] + 1) \div 2)

(***************************************************************************)
(* Claim about max_samples_per_class in map_classes_to_indices.            *)
(***************************************************************************)
SampledDone ==
    pc = "done" /\ fn = "map_classes_to_indices" /\ "max_samples_per_class" \in DOMAIN args

\* p is the k-th of m evenly spaced positions of 0 .. n - 1, rounded to the
\* nearest integer and a half to the even one: |p - k (n-1)/(m-1)| <= 1/2.
NearestPosition(p, k, n, m) ==
    IF m = 1 THEN p = 0
    ELSE LET d == 2 * (p * (m - 1) - k * (n - 1))
         IN /\ d <= m - 1
            /\ -d <= m - 1
            /\ (d = m - 1 \/ -d = m - 1) => p % 2 = 0

\* C27: with max_samples_per_class = m >= 1, a class with n > m indices is
\* returned as exactly m indices, strictly ascending (so pairwise distinct),
\* the ones at the positions round(linspace(0, n - 1, m)) of the class's
\* full index array, its first index included and for m >= 2 its last one;
\* a class with n <= m indices is returned unchanged.
C27_EvenlySpacedSubsample ==
    SampledDone =>
        \A c \in DOMAIN result :
            LET full == local.cls_indices[c]
                n == Len(full)
                m == args.max_samples_per_class
            IN IF n > m
               THEN /\ Len(result[c]) = m
                    /\ Ascending(result[c])
                    /\ \A k \in 1..m : \E p \in 0..(n - 1) :
                          /\ NearestPosition(p, k - 1, n, m)
                          /\ result[c][k] = full[p + 1]
                    /\ result[c][1] = full[1]
                    /\ m >= 2 => result[c][m] = full[n]
               ELSE result[c] = full

\* Four indices of one class cut to three: the middle position 1.5 is
\* rounded to 2.
C27_Witness ==
    /\ SampledDone
    /\ args.max_samples_per_class = 3
    /\ \E c \in DOMAIN result :
          /\ Len(local.cls_indices[c]) = 4
          /\ result[c] = <<0, 2, 3>>

(***************************************************************************)
(* Claim about create_control_grid.                                        *)
(***************************************************************************)
GridDone == pc = "done" /\ fn = "create_control_grid"

\* c is the ceiling of the fraction num / den, den > 0.
IsCeiling(c, num, den) == c * den >= num /\ (c - 1) * den < num

\* C28: for image dimension d and spacing s the requested number of control
\* points is n = ceil((d-1)/(2s) + 0.5)*2 + 2 for even d and
\* n = ceil((d-1)/(2s))*2 + 3 for odd d; n has the parity of d, n = d + 2
\* when s = 1, and the extent of the control grid, (n-1)*s, is at least
\* (d-1) + 2*s.
C28_ControlPoints ==
    GridDone =>
        \A i \in DOMAIN args.spatial_shape :
            LET d == args.spatial_shape[i]
                s == args.spacing[i]
                n == result.grid_shape[i]
                r == result.ranges[i]
            IN /\ IF d % 2 = 0
                  THEN (n - 2) % 2 = 0 /\ IsCeiling((n - 2) \div 2, d - 1 + s, 2 * s)
                  ELSE (n - 3) % 2 = 0 /\ IsCeiling((n - 3) \div 2, d - 1, 2 * s)
               /\ n % 2 = d % 2
               /\ s = 1 => n = d + 2
               /\ Len(r) = n
               /\ r[n] - r[1] = 2 * (n - 1) * s
               /\ r[n] - r[1] >= 2 * ((d - 1) + 2 * s)

\* An even and an odd dimension whose quotient (d-1)/(2s) is not an integer.
C28_Witness ==
    /\ GridDone
    /\ args.spatial_shape = <<4, 5>>
    /\ args.spacing = <<3, 3>>
    /\ result.grid_shape = <<4, 5>>

(***************************************************************************)
(* Claim about convert_applied_interp_mode.                                *)
(***************************************************************************)
InterpDone == pc = "done" /\ fn = "convert_applied_interp_mode"

\* C29: the shape of every applied-operation record is preserved: a "mode"
\* that is a sequence of n interpolation modes becomes a sequence of
\* exactly n copies of the target mode, an "align_corners" that is a
\* sequence of n values becomes exactly n copies of the target value (n
\* does not depend on the length of the target mode's name), scalar entries
\* stay scalar, and the other keys are unchanged.
C29_ShapePreserved ==
    InterpDone =>
        /\ Len(result) = Len(args.trans_info)
        /\ \A i \in DOMAIN args.trans_info :
              LET old == args.trans_info[i]
                  new == result[i]
              IN /\ new.id = old.id
                 /\ new.mode.has = old.mode.has
                 /\ new.mode.seq = old.mode.seq
                 /\ new.align_corners.has = old.align_corners.has
                 /\ new.align_corners.seq = old.align_corners.seq
                 /\ (old.mode.seq /\ \A k \in DOMAIN old.mode.val : old.mode.val[k] \in InterpModes)
                        => new.mode.val = Copies(args.mode, Len(old.mode.val))
                 /\ old.align_corners.seq
                        => new.align_corners.val =
                               Copies(args.align_corners, Len(old.align_corners.val))

(***************************************************************************)
(* Claim about the degenerate ratios of                                    *)
(* generate_label_classes_crop_centers.                                    *)
(***************************************************************************)
\* The arguments pass the checks of lines 603-611.
ClassArgsValid ==
    /\ args.num_samples >= 1
    /\ args.ratios.none \/ Len(args.ratios.val) = Len(args.indices)
    /\ args.ratios.none \/ \A i \in DOMAIN args.ratios.val : args.ratios.val[i] >= 0

EveryClassEmpty == \A i \in DOMAIN args.indices : Len(args.indices[i]) = 0

AllRatiosZero ==
    ~args.ratios.none /\ \A i \in DOMAIN args.ratios.val : args.ratios.val[i] = 0

\* C30: a call with valid arguments whose class index sets are all empty,
\* or whose ratios are all 0, never returns centers: it ends in the error
\* of the probabilities that are not a distribution, before any class is
\* drawn and before any index set is accessed.
C30_DegenerateRatiosFail ==
    (Classes /\ ClassArgsValid /\ (EveryClassEmpty \/ AllRatiosZero))
        => /\ pc = "error"
           /\ err = "ValueError: probabilities contain NaN"
           /\ result = <<>>
           /\ rsDraws = 0 /\ globalDraws = 0 /\ freshDraws = 0

\* Two classes with default ratios and no index at all: both ratios are
\* zeroed (with a warning each) and the call fails.
C30_Witness ==
    /\ Classes
    /\ pc = "error"
    /\ err = "ValueError: probabilities contain NaN"
    /\ args.ratios.none
    /\ args.warn
    /\ Len(args.indices) = 2
    /\ EveryClassEmpty
    /\ Len(warnings) = 2

====
